---- MODULE Spec2Model ----
(***************************************************************************)
(* Model of the course recommender (Vouresz/Mod_Recomendador).             *)
(*                                                                         *)
(* State: the DataLoader's two data frames, the DataPreprocessor's index   *)
(* tables, the knowledge graph, the collaborative-filtering artifacts, the *)
(* fusion scores of the hybrid network, and the outcome of the last call.  *)
(* Operations: the public methods of CourseRecommender and                 *)
(* CollaborativeFilteringModel, one action per method call.                *)
(*                                                                         *)
(* Numbers.  Grades are integers on the 0-20 scale (values outside the     *)
(* scale are allowed, as the loader only warns about them).  Scores and    *)
(* weights are exact rationals stored as integers in units of 1/ScoreUnit, *)
(* so the weight 1.0 is ScoreUnit and the boost 2.0 is 2 * ScoreUnit;      *)
(* floating-point rounding is not modelled.                                *)
(***************************************************************************)
EXTENDS Integers, Sequences, FiniteSets, TLC

(***************************************************************************)
(* Bounds of the model.                                                    *)
(***************************************************************************)
\* largest number of history records in courses_taken
MaxRecords == 2
\* largest top_k a caller passes (the smallest is -1)
MaxTopK == 3

(***************************************************************************)
(* Generic helpers.                                                        *)
(***************************************************************************)
Range(s) == {s[i] : i \in 1..Len(s)}

Min2(a, b) == IF a <= b THEN a ELSE b

Max2(a, b) == IF a >= b THEN a ELSE b

MaxOf(S) == CHOOSE x \in S : \A y \in S : y <= x

RECURSIVE SumSeq(_)
SumSeq(s) == IF s = <<>> THEN 0 ELSE Head(s) + SumSeq(Tail(s))

RECURSIVE Fact(_)
Fact(n) == IF n <= 1 THEN 1 ELSE n * Fact(n - 1)

RECURSIVE Concat(_)
\* the concatenation of a sequence of sequences
Concat(ss) == IF ss = <<>> THEN <<>> ELSE Head(ss) \o Concat(Tail(ss))

\* every listing of the finite set S without repetition: the orders in
\* which iterating over a Python set of strings can yield its elements
Orderings(S) ==
    {s \in [1..Cardinality(S) -> S] : \A i, j \in 1..Cardinality(S) : s[i] = s[j] => i = j}

\* Python's s[:k] for any integer k (a negative k counts from the end)
PySlice(s, k) ==
    IF k >= 0 THEN SubSeq(s, 1, Min2(k, Len(s)))
    ELSE SubSeq(s, 1, Max2(0, Len(s) + k))

(***************************************************************************)
(* The universe of inputs.                                                 *)
(***************************************************************************)
\* course codes in lexicographic order (the order pandas sorts group keys)
CodeOrder == <<"BMA01", "BMA02", "EE701", "EE999">>

Codes == Range(CodeOrder)

CodeRank(c) == CHOOSE i \in 1..Len(CodeOrder) : CodeOrder[i] = c

\* student ids in lexicographic order
StudentOrder == <<"A1", "A2">>

Students == Range(StudentOrder)

StudentRank(s) == CHOOSE i \in 1..Len(StudentOrder) : StudentOrder[i] = s

\* the hardcoded obligatory set, restricted to the codes of the model
OBLIGATORY_COURSES == {"BMA01", "BMA02"}

\* one unit of score is 1/ScoreUnit: every weight (avg - 10)/10 over at most
\* MaxRecords grades, and half of it, is a whole number of units
ScoreUnit == 20 * Fact(MaxRecords)

\* the rows a courses.csv may hold: code, prerequisite list, track list
CourseRows ==
    { [course_code |-> "BMA01", prereq_codes |-> <<>>, lineas_carrera |-> <<>>],
      [course_code |-> "BMA01", prereq_codes |-> <<>>, lineas_carrera |-> <<"Control">>],
      [course_code |-> "BMA02", prereq_codes |-> <<"BMA01">>, lineas_carrera |-> <<"Control">>],
      [course_code |-> "EE701", prereq_codes |-> <<>>, lineas_carrera |-> <<"Control", "Potencia">>],
      [course_code |-> "EE701", prereq_codes |-> <<"BMA02", "EE999">>, lineas_carrera |-> <<"Potencia">>] }

\* the catalogs: rows in file order, course codes unique (load_courses
\* rejects a file with a duplicated code)
Catalogs ==
    {cat \in UNION {[1..n -> CourseRows] : n \in 0..3} :
        \A i, j \in DOMAIN cat :
            i < j => CodeRank(cat[i].course_code) < CodeRank(cat[j].course_code)}

\* a failing grade, the lowest passing grade, and a grade above the 0-20 scale
Grades == {8, 10, 25}

\* the rows a courses_taken.csv may hold
RecordRows ==
    [alumno : {"A1"}, course_code : {"BMA01", "BMA02", "EE701"}, cycle : {1}, grade : Grades]

\* the fusion logits the hybrid network may produce, in units of 1/ScoreUnit
FusionVals == {0, 3 * ScoreUnit}

(***************************************************************************)
(* State.                                                                  *)
(***************************************************************************)
VARIABLES
    courses,             \* DataLoader.courses: the catalog rows
    courses_taken,       \* DataLoader.courses_taken: the history records
    student_to_idx,      \* DataPreprocessor.student_to_idx
    course_to_idx,       \* DataPreprocessor.course_to_idx
    graph,               \* KnowledgeGraphBuilder.graph
    interaction_matrix,  \* CollaborativeFilteringModel.interaction_matrix
    user_factors,        \* CollaborativeFilteringModel.user_factors
    item_factors,        \* CollaborativeFilteringModel.item_factors
    factors,             \* CollaborativeFilteringModel.factors
    embeddings,          \* KnowledgeGraphBuilder.embeddings: node -> vector
    embedding_dim,       \* KnowledgeGraphBuilder.embedding_dim
    disk,                \* the pickle files under models/: cf_model.pkl, kg_model.pkl
    snap,                \* the answers of every lookup when each file was written
    net,                 \* the fusion network: its mode flag and BatchNorm counters
    calls,               \* the predict_score calls in progress, one per thread
    api,                 \* RecommenderAPI: models_loaded and the progress of load_models
    walker,              \* train_node2vec in progress: round, start node, walk so far
    als,                 \* CollaborativeFilteringModel.train in progress: loop position, writes
    chain,               \* get_prerequisite_chain in progress: the stack of recursive calls
    ret                  \* the outcome of the last call

\* the two data frames and the index tables
loaded == <<courses, courses_taken, student_to_idx, course_to_idx>>

\* the collaborative-filtering artifacts
cf == <<interaction_matrix, user_factors, item_factors, factors>>

\* the knowledge-graph artifacts
kg == <<graph, embeddings, embedding_dim>>

\* the two training procedures and the prerequisite-chain lookup
jobs == <<walker, als, chain>>

vars == <<loaded, cf, kg, disk, snap, net, calls, api, jobs, ret>>

data == <<loaded, cf, kg, disk, snap, net, calls, api, jobs>>

(***************************************************************************)
(* DataLoader.                                                             *)
(***************************************************************************)
\* sort_values(['alumno', 'cycle']): insertion of one row, keeping the order
\* of rows with equal keys
RowLE(a, b) ==
    \/ StudentRank(a.alumno) < StudentRank(b.alumno)
    \/ a.alumno = b.alumno /\ a.cycle <= b.cycle

RECURSIVE InsertRow(_, _)
InsertRow(sorted, r) ==
    IF sorted = <<>> THEN <<r>>
    ELSE IF RowLE(sorted[Len(sorted)], r) THEN Append(sorted, r)
    ELSE Append(InsertRow(SubSeq(sorted, 1, Len(sorted) - 1), r), sorted[Len(sorted)])

RECURSIVE SortRows(_)
SortRows(rows) ==
    IF rows = <<>> THEN <<>>
    ELSE InsertRow(SortRows(SubSeq(rows, 1, Len(rows) - 1)), rows[Len(rows)])

\* load_courses_taken: the rows of the file, sorted by student and cycle
load_courses_taken(rows) == SortRows(rows)

\* get_all_courses: the catalog's codes in file order
get_all_courses == [i \in DOMAIN courses |-> courses[i].course_code]

\* get_course_info: <<>> for None, else <<row>> for the first matching row
get_course_info(course_code) ==
    LET hits == SelectSeq(courses, LAMBDA r : r.course_code = course_code)
    IN IF hits = <<>> THEN <<>> ELSE <<Head(hits)>>

\* the codes of S in sorted order (the index of a pandas groupby)
SortedCodes(S) == SelectSeq(CodeOrder, LAMBDA c : c \in S)

\* get_all_students: the sorted unique student ids of the history
get_all_students ==
    SelectSeq(StudentOrder, LAMBDA s : \E i \in DOMAIN courses_taken : courses_taken[i].alumno = s)

\* variant: a repeated course keeps the grade of its last record
get_student_history_LastGrade(student_id, pass_threshold) ==
    LET student_data == SelectSeq(courses_taken, LAMBDA r : r.alumno = student_id)
        all_courses == [i \in DOMAIN student_data |-> student_data[i].course_code]
        taken == Range(all_courses)
        best_grades == [c \in taken |->
            student_data[MaxOf({j \in DOMAIN student_data : student_data[j].course_code = c})].grade]
    IN [ all_courses |-> all_courses,
         passed_courses |-> SortedCodes({c \in taken : best_grades[c] >= pass_threshold}),
         grades |-> best_grades ]

\* get_student_history
get_student_history(student_id, pass_threshold) ==
    LET student_data == SelectSeq(courses_taken, LAMBDA r : r.alumno = student_id)
        all_courses == [i \in DOMAIN student_data |-> student_data[i].course_code]
        taken == Range(all_courses)
        best_grades == [c \in taken |->
            MaxOf({student_data[i].grade : i \in {j \in DOMAIN student_data : student_data[j].course_code = c}})]
    IN [ all_courses |-> all_courses,
         passed_courses |-> SortedCodes({c \in taken : best_grades[c] >= pass_threshold}),
         grades |-> best_grades ]

\* validate_data_consistency: the report, with each issue kept as the set of
\* codes its message lists (an issue is reported when its set is not empty)
validate_data_consistency ==
    LET catalog_courses == {courses[i].course_code : i \in DOMAIN courses}
        taken_courses == {courses_taken[r].course_code : r \in DOMAIN courses_taken}
        unknown_courses == taken_courses \ catalog_courses
        all_prereqs == UNION {Range(courses[i].prereq_codes) : i \in DOMAIN courses}
        invalid_prereqs == all_prereqs \ catalog_courses
    IN [ valid |-> unknown_courses = {} /\ invalid_prereqs = {},
         unknown_courses |-> unknown_courses,
         invalid_prereqs |-> invalid_prereqs,
         num_courses |-> Cardinality(catalog_courses),
         num_students |-> Len(get_all_students),
         num_records |-> Len(courses_taken) ]

(***************************************************************************)
(* DataPreprocessor.                                                       *)
(***************************************************************************)
\* build_indices: 0-based positions in get_all_students / get_all_courses
IndexOf(seq) == [x \in Range(seq) |-> (CHOOSE i \in DOMAIN seq : seq[i] = x) - 1]

build_student_to_idx == IndexOf(get_all_students)

build_course_to_idx == IndexOf(get_all_courses)

idx_to_course(idx) == CHOOSE c \in DOMAIN course_to_idx : course_to_idx[c] = idx

\* build_interaction_matrix: csr_matrix((data, (rows, cols))) adds up the
\* ones of the rows that fall on the same (student, course) cell
build_interaction_matrix(pass_threshold) ==
    [u \in 0..(Cardinality(DOMAIN student_to_idx) - 1) |->
        [i \in 0..(Cardinality(DOMAIN course_to_idx) - 1) |->
            Cardinality({r \in DOMAIN courses_taken :
                /\ courses_taken[r].grade >= pass_threshold
                /\ courses_taken[r].alumno \in DOMAIN student_to_idx
                /\ courses_taken[r].course_code \in DOMAIN course_to_idx
                /\ student_to_idx[courses_taken[r].alumno] = u
                /\ course_to_idx[courses_taken[r].course_code] = i})]]

\* the track labels in sorted order (MultiLabelBinarizer.classes_)
LineaOrder == <<"Control", "Potencia">>

mlb_classes ==
    SelectSeq(LineaOrder,
        LAMBDA l : \E i \in DOMAIN courses : l \in Range(courses[i].lineas_carrera))

\* get_course_lineas_vector: the multi-hot track vector, zeros when unknown
get_course_lineas_vector(course_code) ==
    IF course_code \notin DOMAIN course_to_idx
    THEN [k \in DOMAIN mlb_classes |-> 0]
    ELSE LET row == courses[course_to_idx[course_code] + 1]
         IN [k \in DOMAIN mlb_classes |->
                IF mlb_classes[k] \in Range(row.lineas_carrera) THEN 1 ELSE 0]

Dot(a, b) == SumSeq([k \in DOMAIN a |-> a[k] * b[k]])

(***************************************************************************)
(* KnowledgeGraphBuilder.  A node is <<kind, id>>: the string "kind:id".   *)
(* The graph is a multigraph: edges is the list of edges in insertion      *)
(* order, parallel edges included.                                         *)
(***************************************************************************)
\* the threshold the training pipeline passes to build_graph and cf.train
TrainThreshold == 11

\* nx.MultiDiGraph(): nodes, the nodes that carry a type attribute, edges
EmptyGraph == [nodes |-> {}, typed |-> {}, edges |-> <<>>]

\* add_node(n, type=...) for every node n of the set ns: a typed node
add_nodes(g, ns) == [g EXCEPT !.nodes = @ \cup ns, !.typed = @ \cup ns]

\* add_edge(u, v, ...): creates the end nodes it does not find, untyped
add_edge(g, e) == [g EXCEPT !.nodes = @ \cup {e.u, e.v}, !.edges = Append(@, e)]

RECURSIVE AddEdges(_, _)
AddEdges(g, es) == IF es = <<>> THEN g ELSE AddEdges(add_edge(g, Head(es)), Tail(es))

has_node(g, n) == n \in g.nodes

\* the BELONGS_TO edges of one catalog row, in the order of its track list
BelongsToEdges(row) ==
    [k \in DOMAIN row.lineas_carrera |->
        [u |-> <<"Course", row.course_code>>, v |-> <<"Linea", row.lineas_carrera[k]>>,
         type |-> "BELONGS_TO"]]

\* the HAS_PREREQ edges of one catalog row: only to prerequisites that are
\* nodes of g
PrereqEdges(g, row) ==
    LET present == SelectSeq(row.prereq_codes, LAMBDA p : has_node(g, <<"Course", p>>))
    IN [k \in DOMAIN present |->
        [u |-> <<"Course", row.course_code>>, v |-> <<"Course", present[k]>>,
         type |-> "HAS_PREREQ"]]

\* variant: one TOOK edge per (student, course) pair, from its first record
TookEdges_Deduplicated(pass_threshold) ==
    LET firsts == SelectSeq([r \in DOMAIN courses_taken |-> r],
                     LAMBDA r : \A q \in 1..(r - 1) :
                         \/ courses_taken[q].alumno # courses_taken[r].alumno
                         \/ courses_taken[q].course_code # courses_taken[r].course_code)
    IN [k \in DOMAIN firsts |->
        [u |-> <<"Student", courses_taken[firsts[k]].alumno>>,
         v |-> <<"Course", courses_taken[firsts[k]].course_code>>,
         type |-> "TOOK", grade |-> courses_taken[firsts[k]].grade,
         passed |-> (courses_taken[firsts[k]].grade >= pass_threshold)]]

\* one TOOK edge per history record
TookEdges(pass_threshold) ==
    [r \in DOMAIN courses_taken |->
        [u |-> <<"Student", courses_taken[r].alumno>>,
         v |-> <<"Course", courses_taken[r].course_code>>,
         type |-> "TOOK", grade |-> courses_taken[r].grade,
         passed |-> (courses_taken[r].grade >= pass_threshold)]]

build_graph(pass_threshold) ==
    LET course_nodes == {<<"Course", courses[i].course_code>> : i \in DOMAIN courses}
        linea_nodes == {<<"Linea", l>> : l \in Range(mlb_classes)}
        student_nodes == {<<"Student", s>> : s \in Range(get_all_students)}
        g3 == add_nodes(add_nodes(add_nodes(EmptyGraph, course_nodes), linea_nodes), student_nodes)
        g4 == AddEdges(g3, Concat([i \in DOMAIN courses |-> BelongsToEdges(courses[i])]))
        g5 == AddEdges(g4, Concat([i \in DOMAIN courses |-> PrereqEdges(g4, courses[i])]))
    IN AddEdges(g5, TookEdges(pass_threshold))

\* the number of embedding dimensions (64 in the code)
Dimensions == 1

\* train_node2vec: a table with one vector of dim entries for every node of
\* the graph (the vectors themselves come out of a random process; the table
\* here is one of its outcomes)
train_node2vec(g, dim) ==
    [n \in g.nodes |-> [k \in 1..dim |-> IF n[1] = "Student" THEN 1 ELSE 2]]

\* variant: a student without a node gets a vector of ones
kg_get_student_embedding_Ones(student_id) ==
    LET node == <<"Student", student_id>>
    IN IF node \in DOMAIN embeddings THEN embeddings[node]
       ELSE [k \in 1..embedding_dim |-> 1]

\* KnowledgeGraphBuilder.get_student_embedding
kg_get_student_embedding(student_id) ==
    LET node == <<"Student", student_id>>
    IN IF node \in DOMAIN embeddings THEN embeddings[node]
       ELSE [k \in 1..embedding_dim |-> 0]

\* KnowledgeGraphBuilder.get_course_embedding
kg_get_course_embedding(course_code) ==
    LET node == <<"Course", course_code>>
    IN IF node \in DOMAIN embeddings THEN embeddings[node]
       ELSE [k \in 1..embedding_dim |-> 0]

RECURSIVE DedupeFrom(_, _, _)
\* acc extended by the entries of s from position i on that it does not hold
DedupeFrom(s, i, acc) ==
    IF i > Len(s) THEN acc
    ELSE DedupeFrom(s, i + 1, IF s[i] \in Range(acc) THEN acc ELSE Append(acc, s[i]))

\* the first occurrences of a sequence, in order
Dedupe(s) == DedupeFrom(s, 1, <<>>)

\* graph.neighbors(n): the successors of n, each once, in insertion order
neighbors(g, n) ==
    LET out == SelectSeq(g.edges, LAMBDA e : e.u = n)
    IN Dedupe([k \in DOMAIN out |-> out[k].v])

\* graph.predecessors(n)
predecessors(g, n) ==
    LET inc == SelectSeq(g.edges, LAMBDA e : e.v = n)
    IN Dedupe([k \in DOMAIN inc |-> inc[k].u])

\* get_course_neighbors raises (networkx) when the course is not a node
course_neighbors_raises(course_code) == ~has_node(graph, <<"Course", course_code>>)

\* variant: the prerequisites are listed before the courses of the tracks
get_course_neighbors_PrereqFirst(course_code, k) ==
    LET course_node == <<"Course", course_code>>
        nbrs == neighbors(graph, course_node)
        lineas == SelectSeq(nbrs, LAMBDA n : n[1] = "Linea")
        by_linea == Concat([a \in DOMAIN lineas |->
            LET preds == SelectSeq(predecessors(graph, lineas[a]),
                             LAMBDA p : p[1] = "Course" /\ p # course_node)
            IN [b \in DOMAIN preds |-> <<preds[b][2], "linea">>]])
        prereq_nodes == SelectSeq(nbrs, LAMBDA n : n[1] = "Course")
        by_prereq == [b \in DOMAIN prereq_nodes |-> <<prereq_nodes[b][2], "prereq">>]
    IN PySlice(by_prereq \o by_linea, k)

get_course_neighbors(course_code, k) ==
    LET course_node == <<"Course", course_code>>
        nbrs == neighbors(graph, course_node)
        lineas == SelectSeq(nbrs, LAMBDA n : n[1] = "Linea")
        by_linea == Concat([a \in DOMAIN lineas |->
            LET preds == SelectSeq(predecessors(graph, lineas[a]),
                             LAMBDA p : p[1] = "Course" /\ p # course_node)
            IN [b \in DOMAIN preds |-> <<preds[b][2], "linea">>]])
        prereq_nodes == SelectSeq(nbrs, LAMBDA n : n[1] = "Course")
        by_prereq == [b \in DOMAIN prereq_nodes |-> <<prereq_nodes[b][2], "prereq">>]
    IN PySlice(by_linea \o by_prereq, k)

(***************************************************************************)
(* CollaborativeFilteringModel.                                            *)
(***************************************************************************)
\* the number of latent factors (64 in the code)
Factors == 1

\* np.zeros(self.factors)
ZeroVector == [k \in 1..factors |-> 0]

\* variant: an unknown student gets a vector of ones
cf_get_student_embedding_Ones(student_id) ==
    IF student_id \notin DOMAIN student_to_idx THEN [k \in 1..factors |-> 1]
    ELSE user_factors[student_to_idx[student_id]]

cf_get_student_embedding(student_id) ==
    IF student_id \notin DOMAIN student_to_idx THEN ZeroVector
    ELSE user_factors[student_to_idx[student_id]]

cf_get_course_embedding(course_code) ==
    IF course_code \notin DOMAIN course_to_idx THEN ZeroVector
    ELSE item_factors[course_to_idx[course_code]]

cf_predict_score(student_id, course_code) ==
    Dot(cf_get_student_embedding(student_id), cf_get_course_embedding(course_code))

\* the order of np.argsort(-scores_copy): index a comes no later than index b.
\* A taken item has scores_copy = -inf, so its key -scores_copy is +inf.
\* Arrays this short are sorted by insertion, which keeps the index order
\* of equal keys.
ArgLE(scores, taken_items, a, b) ==
    \/ b \in taken_items
    \/ a \notin taken_items /\ scores[a] >= scores[b]

RECURSIVE InsertIdx(_, _, _, _)
InsertIdx(scores, taken_items, sorted, x) ==
    IF sorted = <<>> THEN <<x>>
    ELSE IF ArgLE(scores, taken_items, sorted[Len(sorted)], x) THEN Append(sorted, x)
    ELSE Append(InsertIdx(scores, taken_items, SubSeq(sorted, 1, Len(sorted) - 1), x),
                sorted[Len(sorted)])

RECURSIVE ArgSort(_, _, _)
\* the indices 0..n-1 in the order np.argsort(-scores_copy) lists them
ArgSort(scores, taken_items, n) ==
    IF n = 0 THEN <<>>
    ELSE InsertIdx(scores, taken_items, ArgSort(scores, taken_items, n - 1), n - 1)

\* the indices recommend() returns: argsort(-scores_copy)[:top_k]
TopIndices(scores, taken_items, top_k) ==
    PySlice(ArgSort(scores, taken_items, Cardinality(DOMAIN scores)), top_k)

cf_recommend(student_id, top_k) ==
    IF student_id \notin DOMAIN student_to_idx THEN <<>>
    ELSE LET student_idx == student_to_idx[student_id]
             user_emb == user_factors[student_idx]
             scores == [i \in DOMAIN item_factors |-> Dot(item_factors[i], user_emb)]
             taken_items == {i \in DOMAIN interaction_matrix[student_idx] :
                                interaction_matrix[student_idx][i] # 0}
             top_indices == TopIndices(scores, taken_items, top_k)
         IN [k \in DOMAIN top_indices |->
                <<idx_to_course(top_indices[k]), scores[top_indices[k]]>>]

(***************************************************************************)
(* ContentBasedModel.  A cosine similarity is kept exact as the pair       *)
(* <<num, den2>> standing for num / sqrt(den2); 0.0 is <<0, 1>>.           *)
(***************************************************************************)
\* the sum of the track vectors of the passed courses: the profile is this
\* vector divided by the count and by its norm
ProfileSum(student_id) ==
    LET passed_courses == get_student_history(student_id, 10).passed_courses
    IN [k \in DOMAIN mlb_classes |->
           SumSeq([a \in DOMAIN passed_courses |-> get_course_lineas_vector(passed_courses[a])[k]])]

\* get_student_profile: get_student_lineas_profile, the mean of the track
\* vectors of the passed courses divided by its norm, or zeros when no course
\* is passed.  The vector is kept up to that positive scale factor: it is
\* zero exactly when the profile is.
content_get_student_profile(student_id) == ProfileSum(student_id)

\* ContentBasedModel.get_course_embedding: the stored track vector, zeros
\* for a course without one
content_get_course_embedding(course_code) == get_course_lineas_vector(course_code)

compute_similarity(student_id, course_code) ==
    LET profile == ProfileSum(student_id)
        course_vec == get_course_lineas_vector(course_code)
    IN IF course_code \notin DOMAIN course_to_idx THEN <<0, 1>>
       ELSE IF Dot(profile, profile) = 0 THEN <<0, 1>>
       ELSE IF Dot(course_vec, course_vec) = 0 THEN <<0, 1>>
       ELSE <<Dot(profile, course_vec), Dot(profile, profile) * Dot(course_vec, course_vec)>>

(***************************************************************************)
(* CourseRecommender: the two rule functions.                              *)
(***************************************************************************)
\* the pass threshold hardcoded in recommend.py
RecommendThreshold == 10

\* variant: one passed prerequisite is enough
cumple_prereqs_Any(student_id, course_code) ==
    LET course_info == get_course_info(course_code)
    IN IF course_info = <<>> THEN TRUE
       ELSE LET prereqs == course_info[1].prereq_codes
            IN IF Len(prereqs) = 0 THEN TRUE
               ELSE LET history == get_student_history(student_id, RecommendThreshold)
                        passed == Range(history.passed_courses)
                    IN \E i \in DOMAIN prereqs : prereqs[i] \in passed

cumple_prereqs(student_id, course_code) ==
    LET course_info == get_course_info(course_code)
    IN IF course_info = <<>> THEN TRUE
       ELSE LET prereqs == course_info[1].prereq_codes
            IN IF Len(prereqs) = 0 THEN TRUE
               ELSE LET history == get_student_history(student_id, RecommendThreshold)
                        passed == Range(history.passed_courses)
                    IN \A i \in DOMAIN prereqs : prereqs[i] \in passed

\* variant: the weight is returned without the clamp
ClampWeight_None(peso) == peso

\* the clamp max(0.0, min(1.0, peso)) in units of 1/ScoreUnit
ClampWeight(peso) == Max2(0, Min2(ScoreUnit, peso))

\* variant: every passed course with tracks counts, shared track or not
RelatedPassed_AnyTrack(history, course_lineas) ==
    SelectSeq(history.passed_courses,
        LAMBDA pc : LET passed_info == get_course_info(pc)
                    IN /\ passed_info # <<>>
                       /\ Len(passed_info[1].lineas_carrera) > 0)

\* the passed courses of the history that share a track with course_lineas,
\* in the order of passed_courses
RelatedPassed(history, course_lineas) ==
    SelectSeq(history.passed_courses,
        LAMBDA pc : LET passed_info == get_course_info(pc)
                    IN /\ passed_info # <<>>
                       /\ Len(passed_info[1].lineas_carrera) > 0
                       /\ course_lineas \cap Range(passed_info[1].lineas_carrera) # {})

calcular_peso_lineas(student_id, course_code) ==
    LET course_info == get_course_info(course_code)
    IN IF course_info = <<>> THEN 0
       ELSE IF Len(course_info[1].lineas_carrera) = 0 THEN 0
       ELSE LET course_lineas == Range(course_info[1].lineas_carrera)
                history == get_student_history(student_id, RecommendThreshold)
                related == RelatedPassed(history, course_lineas)
                related_grades == [i \in DOMAIN related |-> history.grades[related[i]]]
            IN IF Len(related_grades) > 0
               THEN \* peso = (avg_grade - 10.0) / 10.0, avg_grade = sum / len
                    ClampWeight(((SumSeq(related_grades) - 10 * Len(related_grades)) * ScoreUnit)
                                    \div (10 * Len(related_grades)))
               ELSE 0

(***************************************************************************)
(* CourseRecommender.recomendar_cursos and explain_recommendation.         *)
(***************************************************************************)
\* variant: the sort key is the score alone
KeyLE_ScoreOnly(a, b) == a.score >= b.score

\* the sort key (priority, -score): a sorts no later than b
KeyLE(a, b) ==
    \/ a.priority < b.priority
    \/ a.priority = b.priority /\ a.score >= b.score

RECURSIVE InsertItem(_, _)
InsertItem(sorted, x) ==
    IF sorted = <<>> THEN <<x>>
    ELSE IF KeyLE(sorted[Len(sorted)], x) THEN Append(sorted, x)
    ELSE Append(InsertItem(SubSeq(sorted, 1, Len(sorted) - 1), x), sorted[Len(sorted)])

RECURSIVE SortScores(_)
\* list.sort(key=...): stable, items with equal keys keep their order
SortScores(items) ==
    IF items = <<>> THEN <<>>
    ELSE InsertItem(SortScores(SubSeq(items, 1, Len(items) - 1)), items[Len(items)])

\* variant: the never-taken tier is computed from the passed courses
Tiers_NotPassedObligatory(student_id) ==
    LET history == get_student_history(student_id, RecommendThreshold)
        all_courses == Range(get_all_courses)
        passed == Range(history.passed_courses)
        all_taken == Range(history.all_courses)
    IN [ failed_courses |-> (all_taken \ passed) \cap OBLIGATORY_COURSES,
         not_taken_obligatory |-> OBLIGATORY_COURSES \ passed,
         other_courses |-> (all_courses \ passed) \ OBLIGATORY_COURSES ]

\* variant: courses already taken are never candidates again
Tiers_NoFailed(student_id) ==
    LET history == get_student_history(student_id, RecommendThreshold)
        all_courses == Range(get_all_courses)
        all_taken == Range(history.all_courses)
    IN [ failed_courses |-> {},
         not_taken_obligatory |-> OBLIGATORY_COURSES \ all_taken,
         other_courses |-> (all_courses \ all_taken) \ OBLIGATORY_COURSES ]

\* the three candidate tiers of recomendar_cursos
Tiers(student_id) ==
    LET history == get_student_history(student_id, RecommendThreshold)
        all_courses == Range(get_all_courses)
        passed == Range(history.passed_courses)
        all_taken == Range(history.all_courses)
    IN [ failed_courses |-> (all_taken \ passed) \cap OBLIGATORY_COURSES,
         not_taken_obligatory |-> OBLIGATORY_COURSES \ all_taken,
         other_courses |-> (all_courses \ passed) \ OBLIGATORY_COURSES ]

\* variant: both obligatory tiers get the same boost
Boost_Flat(priority) == IF priority = 3 THEN 0 ELSE ScoreUnit

\* the boost added to the score of a candidate of the given priority
Boost(priority) ==
    IF priority = 1 THEN 2 * ScoreUnit ELSE IF priority = 2 THEN ScoreUnit ELSE 0

\* the entry recomendar_cursos appends to scores for one surviving candidate;
\* hybrid_score is what hybrid_model.predict_score returned for it
ScoreItem(student_id, tiers, course, hybrid_score) ==
    LET lineas_weight == calcular_peso_lineas(student_id, course)
        priority == IF course \in tiers.failed_courses THEN 1
                    ELSE IF course \in tiers.not_taken_obligatory THEN 2
                    ELSE 3
    IN [ course_code |-> course,
         score |-> hybrid_score + lineas_weight \div 2 + Boost(priority),
         priority |-> priority,
         is_failed |-> course \in tiers.failed_courses,
         is_obligatory |-> course \in OBLIGATORY_COURSES,
         lineas_weight |-> lineas_weight ]

explain_recommendation(student_id, course_code) ==
    LET course_info == get_course_info(course_code)
    IN [ content_similarity |-> compute_similarity(student_id, course_code),
         kg_neighbors |-> get_course_neighbors(course_code, 3),
         collaborative_score |-> cf_predict_score(student_id, course_code),
         lineas_performance |-> calcular_peso_lineas(student_id, course_code),
         prerequisites |-> IF course_info = <<>> THEN <<>> ELSE course_info[1].prereq_codes,
         prerequisites_met |-> cumple_prereqs(student_id, course_code) ]

\* the returned entry for one item of the sorted, truncated list
Recommendation(student_id, item) ==
    LET course_info == get_course_info(item.course_code)
    IN [ course_code |-> item.course_code,
         score |-> item.score,
         lineas_carrera |-> IF course_info = <<>> THEN <<>> ELSE course_info[1].lineas_carrera,
         is_failed |-> item.is_failed,
         is_obligatory |-> item.is_obligatory,
         priority |-> item.priority,
         reasons |-> explain_recommendation(student_id, item.course_code) ]

\* variant: no candidate is dropped
Survivors_NoFilter(student_id, prioritized_candidates) == prioritized_candidates

\* the candidates that pass the prerequisite check, in candidate order
Survivors(student_id, prioritized_candidates) ==
    SelectSeq(prioritized_candidates, LAMBDA c : cumple_prereqs(student_id, c))

\* recomendar_cursos, the scoring loop and the sort: the surviving candidates
\* scored and ordered by (priority, -score).  hybrid maps each surviving
\* candidate to the value that hybrid_model.predict_score returns for it.
RankedScores(student_id, tiers, survivors, hybrid) ==
    SortScores([k \in DOMAIN survivors |->
                   ScoreItem(student_id, tiers, survivors[k], hybrid[survivors[k]])])

\* recomendar_cursos, the early return and the final loop: the first top_k
\* entries of scores, each with its explanation.  The outcome is the
\* returned list, or "raised" when an explanation fails.
TopRecommendations(student_id, top_k, prioritized_candidates, scores) ==
    LET top == PySlice(scores, top_k)
    IN IF prioritized_candidates = <<>> THEN [status |-> "ok", value |-> <<>>]
       ELSE IF \E k \in DOMAIN top : course_neighbors_raises(top[k].course_code)
       THEN [status |-> "raised", value |-> <<>>]
       ELSE [status |-> "ok", value |-> [k \in DOMAIN top |-> Recommendation(student_id, top[k])]]

(***************************************************************************)
(* Initial states and actions.                                             *)
(***************************************************************************)
\* no pickle file has been written
NoFiles == [cf |-> <<>>, kg |-> <<>>]

\* the threads that serve requests
Threads == {1, 2}

\* a thread that is not inside predict_score
NoCall == [pc |-> "idle"]

\* the modules of the fusion network that carry a mode flag of their own, in
\* the order train(mode) writes them: the model, then its children
Modules == <<"model", "bn", "dropout">>

\* the mode flags after model.eval() / after construction
AllEval == [m \in Range(Modules) |-> FALSE]

AllTraining == [m \in Range(Modules) |-> TRUE]

\* train_node2vec is not running
NoWalk == [pc |-> "idle"]

\* CollaborativeFilteringModel.train is not running
NoALS == [pc |-> "idle"]

\* no get_prerequisite_chain call is in progress
NoChain == [pc |-> "idle"]

\* the artifacts load_models loads, in its order
LoadSteps == <<"data", "preprocessor", "graph", "cf", "content", "fusion", "recommender">>

Histories == UNION {[1..n -> RecordRows] : n \in 0..MaxRecords}

\* the state once the training pipeline has run on the loaded data: indices,
\* graph and interaction matrix are built from the two data frames
Trained ==
    /\ student_to_idx = build_student_to_idx
    /\ course_to_idx = build_course_to_idx
    /\ graph = build_graph(TrainThreshold)
    /\ embedding_dim = Dimensions
    /\ embeddings = train_node2vec(graph, embedding_dim)
    /\ factors = Factors
    /\ interaction_matrix = build_interaction_matrix(TrainThreshold)

\* nothing saved, the fusion network in evaluation mode with no call in
\* progress, the API loaded
Quiet ==
    /\ disk = NoFiles
    /\ snap = NoFiles
    /\ net = [loader |-> "api", training |-> AllEval, num_batches_tracked |-> 0]
    /\ calls = [t \in Threads |-> NoCall]
    /\ walker = NoWalk
    /\ als = NoALS
    /\ chain = NoChain
    /\ api = [models_loaded |-> TRUE, step |-> "done", loaded |-> Len(LoadSteps)]

Init ==
    /\ courses \in Catalogs
    /\ \E rows \in Histories : courses_taken = load_courses_taken(rows)
    /\ Trained
    /\ user_factors = [u \in DOMAIN interaction_matrix |-> [k \in 1..Factors |-> 2]]
    /\ item_factors = [i \in 0..(Len(courses) - 1) |-> [k \in 1..Factors |-> i + 1]]
    /\ Quiet
    /\ ret = [op |-> "none"]

\* no call is in progress: the last outcome has been handed to the caller
Idle == ret.op = "none"

CallCumplePrereqs ==
    \E s \in Students, c \in Codes :
        /\ Idle
        /\ ret' = [op |-> "cumple_prereqs", student_id |-> s, course_code |-> c,
                   value |-> cumple_prereqs(s, c)]
        /\ UNCHANGED data

CallCalcularPesoLineas ==
    \E s \in Students, c \in Codes :
        /\ Idle
        /\ ret' = [op |-> "calcular_peso_lineas", student_id |-> s, course_code |-> c,
                   value |-> calcular_peso_lineas(s, c)]
        /\ UNCHANGED data

CallRecomendarCursos ==
    \E s \in Students :
        /\ Idle
        /\ \E tiers \in {Tiers(s)} :
           \E o1 \in Orderings(tiers.failed_courses),
              o2 \in Orderings(tiers.not_taken_obligatory),
              o3 \in Orderings(tiers.other_courses) :
             \E prioritized_candidates \in {o1 \o o2 \o o3} :
             \E survivors \in {Survivors(s, prioritized_candidates)} :
             \E hybrid \in [Range(survivors) -> FusionVals] :
             \E scores \in {RankedScores(s, tiers, survivors, hybrid)} :
             \E top_k \in (-1)..MaxTopK :
             \E out \in {TopRecommendations(s, top_k, prioritized_candidates, scores)} :
                 /\ ret' = [op |-> "recomendar_cursos", student_id |-> s, top_k |-> top_k,
                            status |-> out.status, value |-> out.value,
                            hybrid_scores |->
                                [c \in {out.value[k].course_code : k \in DOMAIN out.value} |->
                                    hybrid[c]]]
                 /\ UNCHANGED data

\* the thresholds callers pass: the default 10.0 and the configured 11.0
Thresholds == {RecommendThreshold, TrainThreshold}

CallGetStudentHistory ==
    \E s \in Students, pass_threshold \in Thresholds :
        /\ Idle
        /\ ret' = [op |-> "get_student_history", student_id |-> s,
                   pass_threshold |-> pass_threshold,
                   value |-> get_student_history(s, pass_threshold)]
        /\ UNCHANGED data

CallValidateDataConsistency ==
    /\ Idle
    /\ ret' = [op |-> "validate_data_consistency", value |-> validate_data_consistency]
    /\ UNCHANGED data

CallCFPredictScore ==
    \E s \in Students, c \in Codes :
        /\ Idle
        /\ ret' = [op |-> "predict_score", student_id |-> s, course_code |-> c,
                   value |-> cf_predict_score(s, c)]
        /\ UNCHANGED data

\* variant of recommend: the mask of the taken items is written to their
\* rows of item_factors instead of to a copy of the scores
CallCFRecommend_MaskInPlace ==
    \E s \in Students, top_k \in (-1)..MaxTopK :
        /\ Idle
        /\ ret' = [op |-> "recommend", student_id |-> s, top_k |-> top_k,
                   value |-> cf_recommend(s, top_k)]
        /\ item_factors' =
              IF s \notin DOMAIN student_to_idx THEN item_factors
              ELSE [i \in DOMAIN item_factors |->
                       IF interaction_matrix[student_to_idx[s]][i] # 0
                       THEN [k \in 1..factors |-> 0] ELSE item_factors[i]]
        /\ UNCHANGED <<jobs, loaded, interaction_matrix, user_factors, factors, kg,
                       disk, snap, net, calls, api>>

CallCFRecommend ==
    \E s \in Students, top_k \in (-1)..MaxTopK :
        /\ Idle
        /\ ret' = [op |-> "recommend", student_id |-> s, top_k |-> top_k,
                   value |-> cf_recommend(s, top_k)]
        /\ UNCHANGED data

\* get_course_neighbors: networkx raises when the course is not a node
CallGetCourseNeighbors ==
    \E c \in Codes, k \in 0..MaxTopK :
        /\ Idle
        /\ ret' = IF course_neighbors_raises(c)
                  THEN [op |-> "get_course_neighbors", course_code |-> c, k |-> k,
                        status |-> "raised", value |-> <<>>]
                  ELSE [op |-> "get_course_neighbors", course_code |-> c, k |-> k,
                        status |-> "ok", value |-> get_course_neighbors(c, k)]
        /\ UNCHANGED data

CallKGGetStudentEmbedding ==
    \E s \in Students :
        /\ Idle
        /\ ret' = [op |-> "kg.get_student_embedding", student_id |-> s,
                   value |-> kg_get_student_embedding(s)]
        /\ UNCHANGED data

CallKGGetCourseEmbedding ==
    \E c \in Codes :
        /\ Idle
        /\ ret' = [op |-> "kg.get_course_embedding", course_code |-> c,
                   value |-> kg_get_course_embedding(c)]
        /\ UNCHANGED data

CallCFGetStudentEmbedding ==
    \E s \in Students :
        /\ Idle
        /\ ret' = [op |-> "cf.get_student_embedding", student_id |-> s,
                   value |-> cf_get_student_embedding(s)]
        /\ UNCHANGED data

CallCFGetCourseEmbedding ==
    \E c \in Codes :
        /\ Idle
        /\ ret' = [op |-> "cf.get_course_embedding", course_code |-> c,
                   value |-> cf_get_course_embedding(c)]
        /\ UNCHANGED data

CallGetStudentProfile ==
    \E s \in Students :
        /\ Idle
        /\ ret' = [op |-> "get_student_profile", student_id |-> s,
                   value |-> content_get_student_profile(s)]
        /\ UNCHANGED data

CallComputeSimilarity ==
    \E s \in Students, c \in Codes :
        /\ Idle
        /\ ret' = [op |-> "compute_similarity", student_id |-> s, course_code |-> c,
                   value |-> compute_similarity(s, c)]
        /\ UNCHANGED data

\* the caller takes the outcome of the finished call
Return ==
    /\ ~Idle
    /\ ret' = [op |-> "none"]
    /\ UNCHANGED data

Next ==
    \/ CallCumplePrereqs
    \/ CallCalcularPesoLineas
    \/ CallRecomendarCursos
    \/ CallCFPredictScore
    \/ CallGetStudentHistory
    \/ CallValidateDataConsistency
    \/ CallGetCourseNeighbors
    \/ Return

Spec == Init /\ [][Next]_vars

(***************************************************************************)
(* The embedding, score and profile lookups of the three models.           *)
(***************************************************************************)
NextLookup ==
    \/ CallKGGetStudentEmbedding
    \/ CallKGGetCourseEmbedding
    \/ CallCFGetStudentEmbedding
    \/ CallCFGetCourseEmbedding
    \/ CallCFPredictScore
    \/ CallCFRecommend
    \/ CallGetStudentProfile
    \/ CallComputeSimilarity
    \/ Return

SpecLookup == Init /\ [][NextLookup]_vars

(***************************************************************************)
(* Inference on loaded models: every call a client can make once training  *)
(* is over.                                                                *)
(***************************************************************************)
\* HybridRecommenderModel.get_student_embedding: np.concatenate builds a new
\* array out of the three embeddings
hybrid_get_student_embedding(student_id) ==
    kg_get_student_embedding(student_id) \o cf_get_student_embedding(student_id)
        \o content_get_student_profile(student_id)

\* HybridRecommenderModel.get_course_embedding
hybrid_get_course_embedding(course_code) ==
    kg_get_course_embedding(course_code) \o cf_get_course_embedding(course_code)
        \o content_get_course_embedding(course_code)

CallHybridGetStudentEmbedding ==
    \E s \in Students :
        /\ Idle
        /\ ret' = [op |-> "hybrid.get_student_embedding", student_id |-> s,
                   value |-> hybrid_get_student_embedding(s)]
        /\ UNCHANGED data

CallHybridGetCourseEmbedding ==
    \E c \in Codes :
        /\ Idle
        /\ ret' = [op |-> "hybrid.get_course_embedding", course_code |-> c,
                   value |-> hybrid_get_course_embedding(c)]
        /\ UNCHANGED data

\* explain_recommendation: the related-course lookup raises when the course
\* is not a node of the graph
CallExplainRecommendation ==
    \E s \in Students, c \in Codes :
        /\ Idle
        /\ ret' = IF course_neighbors_raises(c)
                  THEN [op |-> "explain_recommendation", student_id |-> s,
                        course_code |-> c, status |-> "raised", value |-> <<>>]
                  ELSE [op |-> "explain_recommendation", student_id |-> s,
                        course_code |-> c, status |-> "ok",
                        value |-> explain_recommendation(s, c)]
        /\ UNCHANGED data

NextInference ==
    \/ CallRecomendarCursos
    \/ CallExplainRecommendation
    \/ CallCFRecommend
    \/ CallCFPredictScore
    \/ CallKGGetStudentEmbedding
    \/ CallKGGetCourseEmbedding
    \/ CallCFGetStudentEmbedding
    \/ CallCFGetCourseEmbedding
    \/ CallHybridGetStudentEmbedding
    \/ CallHybridGetCourseEmbedding
    \/ Return

SpecInference == Init /\ [][NextInference]_vars

(***************************************************************************)
(* The collaborative filter on its own: histories of two students and      *)
(* every table of trained factors over FactorVals.                         *)
(***************************************************************************)
FactorVals == {-1, 2}

\* catalogs of up to three courses, one row per code
CatalogsCF ==
    {cat \in Catalogs : \A i \in DOMAIN cat :
        cat[i].lineas_carrera # <<>> /\ "EE999" \notin Range(cat[i].prereq_codes)}

RecordRowsCF ==
    [alumno : Students, course_code : {"BMA01", "BMA02", "EE701"}, cycle : {1}, grade : {8, 15}]

HistoriesCF == UNION {[1..n -> RecordRowsCF] : n \in 0..MaxRecords}

InitCF ==
    /\ courses \in CatalogsCF
    /\ \E rows \in HistoriesCF : courses_taken = load_courses_taken(rows)
    /\ Trained
    /\ user_factors \in [DOMAIN interaction_matrix -> [1..Factors -> FactorVals]]
    /\ item_factors \in [0..(Len(courses) - 1) -> [1..Factors -> FactorVals]]
    /\ Quiet
    /\ ret = [op |-> "none"]

NextCF ==
    \/ CallCFPredictScore
    \/ CallCFRecommend
    \/ Return

SpecCF == InitCF /\ [][NextCF]_vars

(***************************************************************************)
(* Saving and loading the artifacts.  pickle writes the values of the      *)
(* fields into the file and reads them back; a new process starts from     *)
(* freshly constructed objects.                                            *)
(***************************************************************************)
\* the value None of an array field that has not been assigned yet
None == [i \in {-1} |-> <<>>]

\* the defaults of the constructors (64 in the code): other counts than the
\* configured ones
DefaultFactors == Factors + 1

DefaultDimensions == Dimensions + 1

\* the answer of a lookup: its value, or "raised" when it indexes None
Answer(raises, value, none) ==
    IF raises THEN [status |-> "raised", value |-> none] ELSE [status |-> "ok", value |-> value]

\* what every CF lookup answers in the current state
CFAnswers ==
    LET no_user(s) == s \in DOMAIN student_to_idx /\ user_factors = None
        no_item(c) == c \in DOMAIN course_to_idx /\ item_factors = None
    IN [ student |-> [s \in Students |-> Answer(no_user(s), cf_get_student_embedding(s), <<>>)],
         course |-> [c \in Codes |-> Answer(no_item(c), cf_get_course_embedding(c), <<>>)],
         score |-> [q \in Students \X Codes |->
                       Answer(no_user(q[1]) \/ no_item(q[2]), cf_predict_score(q[1], q[2]), 0)] ]

\* what every KG lookup answers in the current state
KGAnswers ==
    [ student |-> [s \in Students |-> kg_get_student_embedding(s)],
      course |-> [c \in Codes |-> kg_get_course_embedding(c)] ]

\* CollaborativeFilteringModel(preprocessor): a new object
NewCFModel ==
    /\ Idle
    /\ user_factors' = None
    /\ item_factors' = None
    /\ interaction_matrix' = None
    /\ factors' = DefaultFactors
    /\ ret' = [op |-> "cf.__init__"]
    /\ UNCHANGED <<jobs, loaded, kg, disk, snap, net, calls, api>>

CFSaveModel ==
    /\ Idle
    /\ disk' = [disk EXCEPT !.cf = <<[user_factors |-> user_factors,
                                      item_factors |-> item_factors,
                                      interaction_matrix |-> interaction_matrix,
                                      factors |-> factors]>>]
    /\ snap' = [snap EXCEPT !.cf = <<CFAnswers>>]
    /\ ret' = [op |-> "cf.save_model"]
    /\ UNCHANGED <<jobs, loaded, cf, kg, net, calls, api>>

\* variant: the factor count of the file is not restored
CFLoadModel_KeepFactors ==
    /\ Idle
    /\ IF disk.cf = <<>>
       THEN /\ ret' = [op |-> "cf.load_model", status |-> "raised", fresh |-> user_factors = None]
            /\ UNCHANGED cf
       ELSE /\ user_factors' = disk.cf[1].user_factors
            /\ item_factors' = disk.cf[1].item_factors
            /\ interaction_matrix' = disk.cf[1].interaction_matrix
            /\ factors' = factors
            /\ ret' = [op |-> "cf.load_model", status |-> "ok", fresh |-> user_factors = None]
    /\ UNCHANGED <<jobs, loaded, kg, disk, snap, net, calls, api>>

\* load_model: open() raises when the file does not exist
CFLoadModel ==
    /\ Idle
    /\ IF disk.cf = <<>>
       THEN /\ ret' = [op |-> "cf.load_model", status |-> "raised", fresh |-> user_factors = None]
            /\ UNCHANGED cf
       ELSE /\ user_factors' = disk.cf[1].user_factors
            /\ item_factors' = disk.cf[1].item_factors
            /\ interaction_matrix' = disk.cf[1].interaction_matrix
            /\ factors' = disk.cf[1].factors
            /\ ret' = [op |-> "cf.load_model", status |-> "ok", fresh |-> user_factors = None]
    /\ UNCHANGED <<jobs, loaded, kg, disk, snap, net, calls, api>>

\* KnowledgeGraphBuilder(data_loader, preprocessor): a new object
NewKGBuilder ==
    /\ Idle
    /\ graph' = EmptyGraph
    /\ embeddings' = <<>>
    /\ embedding_dim' = DefaultDimensions
    /\ ret' = [op |-> "kg.__init__"]
    /\ UNCHANGED <<jobs, loaded, cf, disk, snap, net, calls, api>>

KGSaveGraph ==
    /\ Idle
    /\ disk' = [disk EXCEPT !.kg = <<[graph |-> graph, embeddings |-> embeddings,
                                      embedding_dim |-> embedding_dim]>>]
    /\ snap' = [snap EXCEPT !.kg = <<KGAnswers>>]
    /\ ret' = [op |-> "kg.save_graph"]
    /\ UNCHANGED <<jobs, loaded, cf, kg, net, calls, api>>

\* load_graph: open() raises when the file does not exist
KGLoadGraph ==
    /\ Idle
    /\ IF disk.kg = <<>>
       THEN /\ ret' = [op |-> "kg.load_graph", status |-> "raised", fresh |-> embeddings = <<>>]
            /\ UNCHANGED kg
       ELSE /\ graph' = disk.kg[1].graph
            /\ embeddings' = disk.kg[1].embeddings
            /\ embedding_dim' = disk.kg[1].embedding_dim
            /\ ret' = [op |-> "kg.load_graph", status |-> "ok", fresh |-> embeddings = <<>>]
    /\ UNCHANGED <<jobs, loaded, cf, disk, snap, net, calls, api>>

\* a reduced set of inputs for the specifications about the handling of the
\* artifacts: the catalogs with tracks on every course, one student
SmallRecordRows ==
    [alumno : {"A1"}, course_code : {"BMA01", "EE701"}, cycle : {1}, grade : {8, 15}]

SmallHistories == UNION {[1..n -> SmallRecordRows] : n \in 0..MaxRecords}

InitSmall ==
    /\ courses \in CatalogsCF
    /\ \E rows \in SmallHistories : courses_taken = load_courses_taken(rows)
    /\ Trained
    /\ user_factors = [u \in DOMAIN interaction_matrix |-> [k \in 1..Factors |-> 2]]
    /\ item_factors = [i \in 0..(Len(courses) - 1) |-> [k \in 1..Factors |-> i + 1]]
    /\ Quiet
    /\ ret = [op |-> "none"]

NextPersist ==
    \/ NewCFModel
    \/ CFSaveModel
    \/ CFLoadModel
    \/ NewKGBuilder
    \/ KGSaveGraph
    \/ KGLoadGraph
    \/ Return

SpecPersist == InitSmall /\ [][NextPersist]_vars

(***************************************************************************)
(* HybridRecommenderModel.predict_score, run by the threads of a server.   *)
(* Each read or write of a mode flag is a step of its own; eval() and      *)
(* train() write the flags of the modules one after another.               *)
(***************************************************************************)
\* the largest value of the BatchNorm counter num_batches_tracked
MaxTracked == 1

\* the queries of the calls: a student and a course of the data, and a pair
\* the data does not know
Queries == {<<"A1", "BMA01">>, <<"A2", "EE999">>}

\* lines 70-75: the call starts and builds the two embeddings
PredictStart(t) ==
    \E q \in Queries :
        /\ calls[t].pc = "idle"
        /\ calls' = [calls EXCEPT ![t] =
               [pc |-> "read", student_id |-> q[1], course_code |-> q[2],
                was_training |-> FALSE, k |-> 1, bn_mode |-> "none",
                dropout_mode |-> "none", status |-> "running", score |-> 0]]
        /\ UNCHANGED <<jobs, loaded, cf, kg, disk, snap, net, api, ret>>

\* line 77: was_training = self.model.training
PredictReadMode(t) ==
    /\ calls[t].pc = "read"
    /\ calls' = [calls EXCEPT ![t].was_training = net.training["model"],
                              ![t].pc = "eval", ![t].k = 1]
    /\ UNCHANGED <<jobs, loaded, cf, kg, disk, snap, net, api, ret>>

\* line 78: self.model.eval() clears the flag of the next module
PredictEval(t) ==
    /\ calls[t].pc = "eval"
    /\ net' = [net EXCEPT !.training[Modules[calls[t].k]] = FALSE]
    /\ calls' = [calls EXCEPT ![t].k = IF @ = Len(Modules) THEN 1 ELSE @ + 1,
                              ![t].pc = IF calls[t].k = Len(Modules) THEN "forward_bn" ELSE "eval"]
    /\ UNCHANGED <<jobs, loaded, cf, kg, disk, snap, api, ret>>

\* lines 79-80, BatchNorm1d: in training mode it counts the batch and then
\* rejects a batch of one row, and the exception leaves predict_score
PredictForwardBN(t) ==
    /\ calls[t].pc = "forward_bn"
    /\ IF net.training["bn"]
       THEN /\ net.num_batches_tracked < MaxTracked
            /\ net' = [net EXCEPT !.num_batches_tracked = @ + 1]
            /\ calls' = [calls EXCEPT ![t].bn_mode = "training", ![t].status = "raised",
                                      ![t].pc = "done"]
       ELSE /\ calls' = [calls EXCEPT ![t].bn_mode = "eval", ![t].pc = "forward_dropout"]
            /\ UNCHANGED net
    /\ UNCHANGED <<jobs, loaded, cf, kg, disk, snap, api, ret>>

\* variant: model.train() is called whatever mode the call found
PredictForwardDropout_AlwaysRestore(t) ==
    \E score \in FusionVals :
        /\ calls[t].pc = "forward_dropout"
        /\ calls' = [calls EXCEPT
               ![t].dropout_mode = IF net.training["dropout"] THEN "training" ELSE "eval",
               ![t].score = score,
               ![t].pc = "train"]
        /\ UNCHANGED <<jobs, loaded, cf, kg, disk, snap, net, api, ret>>

\* lines 79-81, Dropout and the rest of the network: the score is computed
PredictForwardDropout(t) ==
    \E score \in FusionVals :
        /\ calls[t].pc = "forward_dropout"
        /\ calls' = [calls EXCEPT
               ![t].dropout_mode = IF net.training["dropout"] THEN "training" ELSE "eval",
               ![t].score = score,
               ![t].status = IF calls[t].was_training THEN "running" ELSE "ok",
               ![t].pc = IF calls[t].was_training THEN "train" ELSE "done"]
        /\ UNCHANGED <<jobs, loaded, cf, kg, disk, snap, net, api, ret>>

\* line 82: self.model.train() sets the flag of the next module
PredictTrain(t) ==
    /\ calls[t].pc = "train"
    /\ net' = [net EXCEPT !.training[Modules[calls[t].k]] = TRUE]
    /\ calls' = [calls EXCEPT ![t].k = IF @ = Len(Modules) THEN 1 ELSE @ + 1,
                              ![t].status = IF calls[t].k = Len(Modules) THEN "ok" ELSE "running",
                              ![t].pc = IF calls[t].k = Len(Modules) THEN "done" ELSE "train"]
    /\ UNCHANGED <<jobs, loaded, cf, kg, disk, snap, api, ret>>

\* line 84: the call returns (or its exception reaches the caller)
PredictReturn(t) ==
    /\ calls[t].pc = "done"
    /\ calls' = [calls EXCEPT ![t] = NoCall]
    /\ UNCHANGED <<jobs, loaded, cf, kg, disk, snap, net, api, ret>>

\* the network as the API loader leaves it (model.eval() after the weights
\* are loaded) or as the command-line loader leaves it (training mode, the
\* mode of a newly constructed module)
ServeCatalogs == {cat \in CatalogsCF : Len(cat) <= 1}

ServeHistories == UNION {[1..n -> SmallRecordRows] : n \in 0..1}

InitServe ==
    /\ courses \in ServeCatalogs
    /\ \E rows \in ServeHistories : courses_taken = load_courses_taken(rows)
    /\ Trained
    /\ user_factors = [u \in DOMAIN interaction_matrix |-> [k \in 1..Factors |-> 2]]
    /\ item_factors = [i \in 0..(Len(courses) - 1) |-> [k \in 1..Factors |-> i + 1]]
    /\ disk = NoFiles
    /\ snap = NoFiles
    /\ \E loader \in {"api", "cli"} :
           net = [loader |-> loader,
                  training |-> IF loader = "api" THEN AllEval ELSE AllTraining,
                  num_batches_tracked |-> 0]
    /\ calls = [t \in Threads |-> NoCall]
    /\ walker = NoWalk
    /\ als = NoALS
    /\ chain = NoChain
    /\ api = [models_loaded |-> TRUE, step |-> "done", loaded |-> Len(LoadSteps)]
    /\ ret = [op |-> "none"]

NextServe ==
    \E t \in Threads :
        \/ PredictStart(t)
        \/ PredictReadMode(t)
        \/ PredictEval(t)
        \/ PredictForwardBN(t)
        \/ PredictForwardDropout(t)
        \/ PredictTrain(t)
        \/ PredictReturn(t)

SpecServe == InitServe /\ [][NextServe]_vars

\* one caller at a time: every call is made by the first thread
NextServeOne ==
    \E t \in {1} :
        \/ PredictStart(t)
        \/ PredictReadMode(t)
        \/ PredictEval(t)
        \/ PredictForwardBN(t)
        \/ PredictForwardDropout(t)
        \/ PredictTrain(t)
        \/ PredictReturn(t)

SpecServeOne == InitServe /\ [][NextServeOne]_vars

(***************************************************************************)
(* The REST API: load_models, the before_request gate and the handlers.    *)
(* api.loaded counts the artifacts load_models has assigned so far.        *)
(***************************************************************************)
\* the endpoint of a request: three routes, Flask's static route, and
\* "none" for a URL that matches no route (request.endpoint is None)
Endpoints == {"health", "static", "get_students", "get_recommendations", "none"}

\* load_models, one artifact: the next artifact is loaded and assigned; the
\* fusion step ends with model.eval()
LoadModelsStep ==
    /\ api.step \in {"new", "loading"}
    /\ api.loaded < Len(LoadSteps)
    /\ api' = [api EXCEPT !.step = "loading", !.loaded = @ + 1]
    /\ net' = IF LoadSteps[api.loaded + 1] = "fusion"
              THEN [net EXCEPT !.training = AllEval]
              ELSE net
    /\ UNCHANGED <<jobs, loaded, cf, kg, disk, snap, calls, ret>>

\* load_models, the except branch: loading the next artifact raises, the
\* exception is printed and raised again
LoadModelsRaise ==
    /\ api.step \in {"new", "loading"}
    /\ api.loaded < Len(LoadSteps)
    /\ api' = [api EXCEPT !.step = "failed"]
    /\ UNCHANGED <<jobs, loaded, cf, kg, disk, snap, net, calls, ret>>

\* load_models, line 108: self.models_loaded = True
LoadModelsFinish ==
    /\ api.step = "loading"
    /\ api.loaded = Len(LoadSteps)
    /\ api' = [api EXCEPT !.step = "done", !.models_loaded = TRUE]
    /\ UNCHANGED <<jobs, loaded, cf, kg, disk, snap, net, calls, ret>>

\* variant: the gate exempts no endpoint
check_models_NoExemption(endpoint) == ~api.models_loaded

\* check_models: TRUE when the request is answered with 503 by the gate
check_models(endpoint) ==
    endpoint \notin {"health", "static"} /\ ~api.models_loaded

\* the answer to a request: its status and whether the handler used the
\* data loader or the recommender
Response(endpoint, status, backend) ==
    [op |-> "request", endpoint |-> endpoint, models_loaded |-> api.models_loaded,
     status |-> status, backend |-> backend]

\* a request that the gate answers
RequestGated ==
    \E endpoint \in Endpoints :
        /\ Idle
        /\ check_models(endpoint)
        /\ ret' = Response(endpoint, 503, FALSE)
        /\ UNCHANGED data

\* health: always 200, reports models_loaded
RequestHealth ==
    /\ Idle
    /\ ~check_models("health")
    /\ ret' = Response("health", 200, FALSE)
    /\ UNCHANGED data

\* Flask's static route: the file is sent or is missing
RequestStatic ==
    \E status \in {200, 404} :
        /\ Idle
        /\ ~check_models("static")
        /\ ret' = Response("static", status, FALSE)
        /\ UNCHANGED data

\* a URL that matches no route: the 404 handler answers
RequestNotFound ==
    /\ Idle
    /\ ~check_models("none")
    /\ ret' = Response("none", 404, FALSE)
    /\ UNCHANGED data

\* get_students: api.data_loader.get_all_students(); an exception (the
\* data loader is still None) is answered with 500
RequestGetStudents ==
    /\ Idle
    /\ ~check_models("get_students")
    /\ ret' = IF api.loaded >= 1
              THEN Response("get_students", 200, TRUE)
              ELSE Response("get_students", 500, FALSE)
    /\ UNCHANGED data

\* get_recommendations: 404 for an unknown student, else the outcome of
\* recomendar_cursos with the default top_k; any exception is answered 500
RequestGetRecommendations ==
    \E s \in Students :
        /\ Idle
        /\ ~check_models("get_recommendations")
        /\ IF api.loaded < 1
           THEN ret' = Response("get_recommendations", 500, FALSE)
           ELSE IF s \notin Range(get_all_students)
           THEN ret' = Response("get_recommendations", 404, TRUE)
           ELSE IF api.loaded < Len(LoadSteps)
           THEN ret' = Response("get_recommendations", 500, TRUE)
           ELSE \E tiers \in {Tiers(s)} :
                \E o1 \in Orderings(tiers.failed_courses),
                   o2 \in Orderings(tiers.not_taken_obligatory),
                   o3 \in Orderings(tiers.other_courses) :
                \E prioritized_candidates \in {o1 \o o2 \o o3} :
                \E survivors \in {Survivors(s, prioritized_candidates)} :
                \E hybrid \in [Range(survivors) -> FusionVals] :
                \E scores \in {RankedScores(s, tiers, survivors, hybrid)} :
                \E out \in {TopRecommendations(s, 10, prioritized_candidates, scores)} :
                    ret' = Response("get_recommendations",
                                    IF out.status = "ok" THEN 200 ELSE 500, TRUE)
        /\ UNCHANGED data

\* the server process before load_models has run
InitAPI ==
    /\ courses \in ServeCatalogs
    /\ \E rows \in ServeHistories : courses_taken = load_courses_taken(rows)
    /\ Trained
    /\ user_factors = [u \in DOMAIN interaction_matrix |-> [k \in 1..Factors |-> 2]]
    /\ item_factors = [i \in 0..(Len(courses) - 1) |-> [k \in 1..Factors |-> i + 1]]
    /\ disk = NoFiles
    /\ snap = NoFiles
    /\ net = [loader |-> "api", training |-> AllTraining, num_batches_tracked |-> 0]
    /\ calls = [t \in Threads |-> NoCall]
    /\ walker = NoWalk
    /\ als = NoALS
    /\ chain = NoChain
    /\ api = [models_loaded |-> FALSE, step |-> "new", loaded |-> 0]
    /\ ret = [op |-> "none"]

NextAPI ==
    \/ LoadModelsStep
    \/ LoadModelsRaise
    \/ LoadModelsFinish
    \/ RequestGated
    \/ RequestHealth
    \/ RequestStatic
    \/ RequestNotFound
    \/ RequestGetStudents
    \/ RequestGetRecommendations
    \/ Return

SpecAPI == InitAPI /\ [][NextAPI]_vars

(***************************************************************************)
(* HybridRecommenderModel.prepare_training_data on the data of two         *)
(* students.  The result depends on the iteration order of the set passed  *)
(* and on the sample np.random.choice draws.                               *)
(***************************************************************************)
\* np.random.choice(list(S), size=n, replace=False): n distinct elements
Samples(S, n) ==
    {q \in [1..n -> S] : \A i, j \in 1..n : q[i] = q[j] => i = j}

\* variant: the negatives are drawn from the whole catalog
NotPassed_AllCourses(all_courses_set, passed) == all_courses_set

\* not_passed = all_courses_set - passed
NotPassed(all_courses_set, passed) == all_courses_set \ passed

\* the tuples one student contributes, for every set order and sample
StudentPairs(student_id, pass_threshold) ==
    LET history == get_student_history(student_id, pass_threshold)
        passed == Range(history.passed_courses)
        not_passed == NotPassed(Range(get_all_courses), passed)
        sample_size == Min2(Cardinality(passed), Cardinality(not_passed))
    IN {[k \in DOMAIN pos |-> <<student_id, pos[k], 1>>] \o
        [k \in DOMAIN neg |-> <<student_id, neg[k], 0>>] :
            pos \in Orderings(passed),
            neg \in IF sample_size > 0 THEN Samples(not_passed, sample_size)
                    ELSE {<<>>}}

RECURSIVE prepare_training_data(_, _)
\* the lists prepare_training_data can return for the given students
prepare_training_data(students, pass_threshold) ==
    IF students = <<>> THEN {<<>>}
    ELSE {first \o rest :
            first \in StudentPairs(Head(students), pass_threshold),
            rest \in prepare_training_data(Tail(students), pass_threshold)}

CallPrepareTrainingData ==
    \E pass_threshold \in Thresholds :
    \E training_data \in prepare_training_data(get_all_students, pass_threshold) :
        /\ Idle
        /\ ret' = [op |-> "prepare_training_data", pass_threshold |-> pass_threshold,
                   value |-> training_data]
        /\ UNCHANGED data

\* history rows of two students: a grade between the two thresholds and a
\* grade above both
TrainRecordRows ==
    [alumno : Students, course_code : {"BMA01", "EE701"}, cycle : {1}, grade : {10, 15}]

HistoriesTrain == UNION {[1..n -> TrainRecordRows] : n \in 0..(MaxRecords + 1)}

\* the trained pipeline on the histories of two students
InitTrain ==
    /\ courses \in CatalogsCF
    /\ \E rows \in HistoriesTrain : courses_taken = load_courses_taken(rows)
    /\ Trained
    /\ user_factors = [u \in DOMAIN interaction_matrix |-> [k \in 1..Factors |-> 2]]
    /\ item_factors = [i \in 0..(Len(courses) - 1) |-> [k \in 1..Factors |-> i + 1]]
    /\ Quiet
    /\ ret = [op |-> "none"]

NextTrain ==
    \/ CallPrepareTrainingData
    \/ Return

SpecTrain == InitTrain /\ [][NextTrain]_vars

(***************************************************************************)
(* KnowledgeGraphBuilder.train_node2vec, one step at a time, on graphs     *)
(* with prerequisite cycles, self-references and isolated courses.         *)
(***************************************************************************)
\* num_walks (200 in the configuration)
NumWalks == 2

\* walk_length (30 in the configuration)
WalkLength == 3

\* catalog rows with a prerequisite cycle (BMA01 <-> BMA02), a course that
\* names itself as prerequisite, and a course with no track and no
\* prerequisite
WalkRows ==
    { [course_code |-> "BMA01", prereq_codes |-> <<>>, lineas_carrera |-> <<"Control">>],
      [course_code |-> "BMA01", prereq_codes |-> <<"BMA02">>, lineas_carrera |-> <<"Control">>],
      [course_code |-> "BMA02", prereq_codes |-> <<"BMA01">>, lineas_carrera |-> <<"Control">>],
      [course_code |-> "EE701", prereq_codes |-> <<"EE701">>, lineas_carrera |-> <<"Potencia">>],
      [course_code |-> "EE701", prereq_codes |-> <<>>, lineas_carrera |-> <<>>] }

WalkCatalogs ==
    {cat \in UNION {[1..n -> WalkRows] : n \in 0..3} :
        \A i, j \in DOMAIN cat :
            i < j => CodeRank(cat[i].course_code) < CodeRank(cat[j].course_code)}

\* list(self.graph.nodes()): the nodes in insertion order, which is the
\* order of build_graph: catalog courses, tracks (in the iteration order of
\* a set), students, then the nodes the TOOK edges created
NodeOrders ==
    LET course_nodes == [i \in DOMAIN courses |-> <<"Course", courses[i].course_code>>]
        linea_nodes == {<<"Linea", l>> : l \in Range(mlb_classes)}
        student_nodes == [i \in DOMAIN get_all_students |-> <<"Student", get_all_students[i]>>]
        took_nodes == [r \in DOMAIN courses_taken |-> <<"Course", courses_taken[r].course_code>>]
    IN {Dedupe(course_nodes \o lo \o student_nodes \o took_nodes) : lo \in Orderings(linea_nodes)}

\* variant: the loop of _random_walk runs walk_length times
WalkSteps_OneMore(walk_length) == walk_length

\* range(walk_length - 1): the number of steps a walk can take
WalkSteps(walk_length) == walk_length - 1

\* train_node2vec, lines 83-95: the dimension is stored, every node gets a
\* random vector, and the successor lists are compiled
TrainNode2VecBegin ==
    /\ walker.pc = "idle"
    /\ \E nodes \in NodeOrders :
           walker' = [pc |-> "loop", nodes |-> nodes,
                      neighbors |-> [n \in graph.nodes |-> neighbors(graph, n)],
                      walk_id |-> 0, pos |-> 1, start |-> <<>>, current |-> <<>>,
                      walk |-> <<>>, steps |-> 0, walks_done |-> 0]
    /\ embedding_dim' = Dimensions
    /\ embeddings' = [n \in graph.nodes |-> [k \in 1..Dimensions |-> 3]]
    /\ UNCHANGED <<loaded, cf, graph, disk, snap, net, calls, api, als, chain, ret>>

\* _random_walk, lines 110-111: the walk of the next node of the round starts
RandomWalkStart ==
    /\ walker.pc = "loop"
    /\ walker.walk_id < NumWalks
    /\ walker.pos <= Len(walker.nodes)
    /\ walker' = [walker EXCEPT !.pc = "walk", !.start = walker.nodes[walker.pos],
                                !.current = walker.nodes[walker.pos],
                                !.walk = <<walker.nodes[walker.pos]>>, !.steps = 0]
    /\ UNCHANGED <<loaded, cf, kg, disk, snap, net, calls, api, als, chain, ret>>

\* _random_walk, lines 113-116: one step to a randomly chosen entry of
\* neighbors[current]
RandomWalkStep ==
    /\ walker.pc = "walk"
    /\ walker.steps < WalkSteps(WalkLength)
    /\ walker.current \in DOMAIN walker.neighbors
    /\ walker.neighbors[walker.current] # <<>>
    /\ \E next \in Range(walker.neighbors[walker.current]) :
           walker' = [walker EXCEPT !.current = next, !.walk = Append(@, next),
                                    !.steps = @ + 1]
    /\ UNCHANGED <<loaded, cf, kg, disk, snap, net, calls, api, als, chain, ret>>

\* _random_walk, lines 117-120: the loop is over, or the current node has
\* no entry to choose from
RandomWalkReturn ==
    /\ walker.pc = "walk"
    /\ \/ walker.steps = WalkSteps(WalkLength)
       \/ walker.current \notin DOMAIN walker.neighbors
       \/ walker.neighbors[walker.current] = <<>>
    /\ walker' = [walker EXCEPT !.pc = "update"]
    /\ UNCHANGED <<loaded, cf, kg, disk, snap, net, calls, api, als, chain, ret>>

\* _update_embeddings: the vector of every node of the walk is rewritten
\* (to its trained value, one outcome of the update)
UpdateEmbeddings ==
    /\ walker.pc = "update"
    /\ embeddings' = [n \in DOMAIN embeddings |->
                         IF n \in Range(walker.walk)
                         THEN train_node2vec(graph, embedding_dim)[n]
                         ELSE embeddings[n]]
    /\ walker' = [walker EXCEPT !.pc = "loop", !.pos = @ + 1, !.walks_done = @ + 1]
    /\ UNCHANGED <<loaded, cf, graph, embedding_dim, disk, snap, net, calls, api, als, chain, ret>>

\* the inner loop over the nodes is over: the next round begins
NextRound ==
    /\ walker.pc = "loop"
    /\ walker.walk_id < NumWalks
    /\ walker.pos > Len(walker.nodes)
    /\ walker' = [walker EXCEPT !.walk_id = @ + 1, !.pos = 1]
    /\ UNCHANGED <<loaded, cf, kg, disk, snap, net, calls, api, als, chain, ret>>

\* the loop over the rounds is over: train_node2vec returns
TrainNode2VecReturn ==
    /\ walker.pc = "loop"
    /\ walker.walk_id = NumWalks
    /\ walker' = [walker EXCEPT !.pc = "done"]
    /\ UNCHANGED <<loaded, cf, kg, disk, snap, net, calls, api, als, chain, ret>>

\* the pipeline after build_graph: the graph is built, no embedding exists,
\* the CF model is not constructed yet
InitWalk ==
    /\ courses \in WalkCatalogs
    /\ \E rows \in ServeHistories : courses_taken = load_courses_taken(rows)
    /\ student_to_idx = build_student_to_idx
    /\ course_to_idx = build_course_to_idx
    /\ graph = build_graph(TrainThreshold)
    /\ embeddings = <<>>
    /\ embedding_dim = DefaultDimensions
    /\ interaction_matrix = None
    /\ user_factors = None
    /\ item_factors = None
    /\ factors = Factors
    /\ Quiet
    /\ ret = [op |-> "none"]

NextWalk ==
    \/ TrainNode2VecBegin
    \/ RandomWalkStart
    \/ RandomWalkStep
    \/ RandomWalkReturn
    \/ UpdateEmbeddings
    \/ NextRound
    \/ TrainNode2VecReturn

SpecWalk == InitWalk /\ [][NextWalk]_vars

\* the training loop is sequential code: it keeps running until it returns
SpecWalkLive == SpecWalk /\ WF_vars(NextWalk)

(***************************************************************************)
(* CollaborativeFilteringModel.train, one row update at a time.  als holds *)
(* the loop position and, for every factor row, the iteration of its last  *)
(* write (-1: never written since initialisation).                         *)
(***************************************************************************)
\* iterations = 15
Iterations == 15

\* the factor values are kept modulo this number
FactorMod == 5

\* variant: every row is updated
HasInteractions_Always(cells) == TRUE

\* len(items) > 0: the row or column of the matrix has a nonzero cell
HasInteractions(cells) == \E j \in DOMAIN cells : cells[j] # 0

\* np.linalg.solve(A, b) for the factor rows read: the new row, a function
\* of those rows
Solve(rows) ==
    [k \in 1..factors |-> (1 + SumSeq([r \in DOMAIN rows |-> rows[r][k]])) % FactorMod]

\* the indices 0..n-1 in increasing order
Indices(n) == [j \in 1..n |-> j - 1]

\* lines 19-33: the matrix is built and the factors are initialised
ALSBegin ==
    /\ als.pc = "idle"
    /\ interaction_matrix' = build_interaction_matrix(TrainThreshold)
    /\ \E n_users \in {Cardinality(DOMAIN student_to_idx)},
          n_items \in {Cardinality(DOMAIN course_to_idx)} :
        \E uf \in {[u \in 0..(n_users - 1) |-> [k \in 1..factors |-> 2]]},
           itf \in {[i \in 0..(n_items - 1) |-> [k \in 1..factors |-> (i + 1) % FactorMod]]} :
           /\ user_factors' = uf
           /\ item_factors' = itf
           /\ als' = [pc |-> "users", iteration |-> 0, u |-> 0, i |-> 0,
                      n_users |-> n_users, n_items |-> n_items,
                      init_user |-> uf, init_item |-> itf,
                      user_written |-> [u \in 0..(n_users - 1) |-> -1],
                      item_written |-> [i \in 0..(n_items - 1) |-> -1],
                      read |-> <<>>]
    /\ UNCHANGED <<loaded, factors, kg, disk, snap, net, calls, api, walker, chain, ret>>

\* lines 40-48: the row of user u is solved from the rows of its items
ALSUserUpdate ==
    /\ als.pc = "users"
    /\ als.u < als.n_users
    /\ \E items \in {SelectSeq(Indices(als.n_items),
                        LAMBDA i : interaction_matrix[als.u][i] # 0)} :
           IF HasInteractions(interaction_matrix[als.u])
           THEN /\ user_factors' = [user_factors EXCEPT ![als.u] =
                       Solve([j \in DOMAIN items |-> item_factors[items[j]]])]
                /\ als' = [als EXCEPT !.u = @ + 1, !.user_written[als.u] = als.iteration,
                                      !.read = [j \in DOMAIN items |-> als.item_written[items[j]]]]
           ELSE /\ als' = [als EXCEPT !.u = @ + 1]
                /\ UNCHANGED user_factors
    /\ UNCHANGED <<loaded, interaction_matrix, item_factors, factors, kg, disk, snap, net,
                   calls, api, walker, chain, ret>>

\* the loop over the users is over: the loop over the items begins
ALSUsersDone ==
    /\ als.pc = "users"
    /\ als.u = als.n_users
    /\ als' = [als EXCEPT !.pc = "items", !.i = 0]
    /\ UNCHANGED <<loaded, cf, kg, disk, snap, net, calls, api, walker, chain, ret>>

\* lines 51-59: the row of item i is solved from the rows of its users
ALSItemUpdate ==
    /\ als.pc = "items"
    /\ als.i < als.n_items
    /\ \E users \in {SelectSeq(Indices(als.n_users),
                        LAMBDA u : interaction_matrix[u][als.i] # 0)} :
           IF HasInteractions([j \in 1..als.n_users |-> interaction_matrix[j - 1][als.i]])
           THEN /\ item_factors' = [item_factors EXCEPT ![als.i] =
                       Solve([j \in DOMAIN users |-> user_factors[users[j]]])]
                /\ als' = [als EXCEPT !.i = @ + 1, !.item_written[als.i] = als.iteration,
                                      !.read = [j \in DOMAIN users |-> als.user_written[users[j]]]]
           ELSE /\ als' = [als EXCEPT !.i = @ + 1]
                /\ UNCHANGED item_factors
    /\ UNCHANGED <<loaded, interaction_matrix, user_factors, factors, kg, disk, snap, net,
                   calls, api, walker, chain, ret>>

\* the loop over the items is over: the next iteration begins
ALSNextIteration ==
    /\ als.pc = "items"
    /\ als.i = als.n_items
    /\ als.iteration + 1 < Iterations
    /\ als' = [als EXCEPT !.pc = "users", !.iteration = @ + 1, !.u = 0]
    /\ UNCHANGED <<loaded, cf, kg, disk, snap, net, calls, api, walker, chain, ret>>

\* range(iterations) is exhausted: train returns
ALSReturn ==
    /\ als.pc = "items"
    /\ als.i = als.n_items
    /\ als.iteration + 1 = Iterations
    /\ als' = [als EXCEPT !.pc = "done", !.iteration = @ + 1]
    /\ UNCHANGED <<loaded, cf, kg, disk, snap, net, calls, api, walker, chain, ret>>

ALSRecordRows ==
    [alumno : Students, course_code : {"BMA01", "EE701"}, cycle : {1}, grade : {8, 15}]

HistoriesALS == UNION {[1..n -> ALSRecordRows] : n \in 0..MaxRecords}

\* the pipeline before its fourth step: the graph is trained, the CF model
\* is newly constructed with the configured number of factors
InitALS ==
    /\ courses \in CatalogsCF
    /\ \E rows \in HistoriesALS : courses_taken = load_courses_taken(rows)
    /\ student_to_idx = build_student_to_idx
    /\ course_to_idx = build_course_to_idx
    /\ graph = build_graph(TrainThreshold)
    /\ embedding_dim = Dimensions
    /\ embeddings = train_node2vec(graph, embedding_dim)
    /\ interaction_matrix = None
    /\ user_factors = None
    /\ item_factors = None
    /\ factors = Factors
    /\ Quiet
    /\ ret = [op |-> "none"]

NextALS ==
    \/ ALSBegin
    \/ ALSUserUpdate
    \/ ALSUsersDone
    \/ ALSItemUpdate
    \/ ALSNextIteration
    \/ ALSReturn

SpecALS == InitALS /\ [][NextALS]_vars

(***************************************************************************)
(* DataLoader.get_prerequisite_chain, one recursive call at a time, on     *)
(* catalogs with prerequisite cycles, self-references, branching and       *)
(* prerequisites outside the catalog.                                      *)
(***************************************************************************)
\* the interpreter's limit on nested calls (1000 by default): a call deeper
\* than this does not start
RecursionLimit == 6

ChainRows ==
    { [course_code |-> "BMA01", prereq_codes |-> <<>>, lineas_carrera |-> <<>>],
      [course_code |-> "BMA01", prereq_codes |-> <<"BMA02">>, lineas_carrera |-> <<>>],
      [course_code |-> "BMA01", prereq_codes |-> <<"EE701", "BMA02">>, lineas_carrera |-> <<>>],
      [course_code |-> "BMA02", prereq_codes |-> <<"BMA01">>, lineas_carrera |-> <<>>],
      [course_code |-> "BMA02", prereq_codes |-> <<"EE701">>, lineas_carrera |-> <<>>],
      [course_code |-> "EE701", prereq_codes |-> <<"EE701">>, lineas_carrera |-> <<>>],
      [course_code |-> "EE701", prereq_codes |-> <<"BMA01">>, lineas_carrera |-> <<>>],
      [course_code |-> "EE701", prereq_codes |-> <<"BMA01", "EE999">>, lineas_carrera |-> <<>>] }

ChainCatalogs ==
    {cat \in UNION {[1..n -> ChainRows] : n \in 0..3} :
        \A i, j \in DOMAIN cat :
            i < j => CodeRank(cat[i].course_code) < CodeRank(cat[j].course_code)}

\* variant: the visited set is never consulted
InVisited_Never(code, visited) == FALSE

\* get_prereqs_recursive, line 287: code in visited
InVisited(code, visited) == code \in visited

\* the frame of the call get_prereqs_recursive(code, visited), about to run
\* its first line
Frame(code, visited) ==
    [pc |-> "entry", code |-> code, visited |-> visited, prereqs |-> <<>>, k |-> 1,
     chains |-> <<>>]

\* the top call returns sub_chains: the caller extends its chains and moves
\* to its next prerequisite, or, for the outermost call, the lookup is over
ReturnChains(sub_chains) ==
    LET n == Len(chain.stack)
    IN IF n = 1
       THEN [chain EXCEPT !.pc = "done", !.stack = <<>>, !.value = sub_chains]
       ELSE [chain EXCEPT !.stack =
                [SubSeq(chain.stack, 1, n - 1) EXCEPT ![n - 1] =
                    [@ EXCEPT !.chains = @ \o sub_chains, !.k = @ + 1]]]

\* get_prerequisite_chain, line 308: the outermost call, with an empty set
GetPrerequisiteChainBegin ==
    /\ chain.pc = "idle"
    /\ \E c \in Codes :
           chain' = [pc |-> "running", course_code |-> c, stack |-> <<Frame(c, {})>>,
                     value |-> <<>>]
    /\ UNCHANGED <<loaded, cf, kg, disk, snap, net, calls, api, walker, als, ret>>

\* get_prereqs_recursive, lines 287-296: a visited code returns no chain; a
\* code without catalog row or without prerequisites returns itself; else
\* the code joins visited and the loop over its prerequisites starts
PrereqsEnter ==
    /\ chain.pc = "running"
    /\ LET n == Len(chain.stack)
           top == chain.stack[n]
           course_info == get_course_info(top.code)
       IN /\ top.pc = "entry"
          /\ chain' =
               IF InVisited(top.code, top.visited) THEN ReturnChains(<<>>)
               ELSE IF course_info = <<>> \/ course_info[1].prereq_codes = <<>>
               THEN ReturnChains(<<<<top.code>>>>)
               ELSE [chain EXCEPT !.stack[n] =
                        [top EXCEPT !.pc = "loop", !.visited = @ \cup {top.code},
                                    !.prereqs = course_info[1].prereq_codes]]
    /\ UNCHANGED <<loaded, cf, kg, disk, snap, net, calls, api, walker, als, ret>>

\* line 299: the call for the next prerequisite, with a copy of visited
PrereqsRecurse ==
    /\ chain.pc = "running"
    /\ Len(chain.stack) < RecursionLimit
    /\ LET top == chain.stack[Len(chain.stack)]
       IN /\ top.pc = "loop"
          /\ top.k <= Len(top.prereqs)
          /\ chain' = [chain EXCEPT !.stack = Append(@, Frame(top.prereqs[top.k], top.visited))]
    /\ UNCHANGED <<loaded, cf, kg, disk, snap, net, calls, api, walker, als, ret>>

\* lines 303-306: the loop is over; the code is appended to every chain, and
\* a call that collected no chain returns the code alone
PrereqsReturn ==
    /\ chain.pc = "running"
    /\ LET top == chain.stack[Len(chain.stack)]
       IN /\ top.pc = "loop"
          /\ top.k > Len(top.prereqs)
          /\ chain' = ReturnChains(
                 IF top.chains = <<>> THEN <<<<top.code>>>>
                 ELSE [j \in DOMAIN top.chains |-> Append(top.chains[j], top.code)])
    /\ UNCHANGED <<loaded, cf, kg, disk, snap, net, calls, api, walker, als, ret>>

\* the data loader after load_courses and load_courses_taken; no model is
\* built yet
InitChain ==
    /\ courses \in ChainCatalogs
    /\ \E rows \in ServeHistories : courses_taken = load_courses_taken(rows)
    /\ student_to_idx = build_student_to_idx
    /\ course_to_idx = build_course_to_idx
    /\ graph = EmptyGraph
    /\ embeddings = <<>>
    /\ embedding_dim = DefaultDimensions
    /\ interaction_matrix = None
    /\ user_factors = None
    /\ item_factors = None
    /\ factors = Factors
    /\ Quiet
    /\ ret = [op |-> "none"]

NextChain ==
    \/ GetPrerequisiteChainBegin
    \/ PrereqsEnter
    \/ PrereqsRecurse
    \/ PrereqsReturn

SpecChain == InitChain /\ [][NextChain]_vars

\* the interpreter runs the call to its end: a step that can be taken is taken
SpecChainLive == SpecChain /\ WF_vars(NextChain)

(***************************************************************************)
(* Properties.  The facts about the data are restated here from the two    *)
(* data frames themselves, not through the operators above.                *)
(***************************************************************************)
\* the student has some record for the course
HasRecord(s, c) ==
    \E r \in DOMAIN courses_taken :
        courses_taken[r].alumno = s /\ courses_taken[r].course_code = c

\* the student has passed the course: some record with grade >= 10.0
PassedRaw(s, c) ==
    \E r \in DOMAIN courses_taken :
        /\ courses_taken[r].alumno = s
        /\ courses_taken[r].course_code = c
        /\ courses_taken[r].grade >= 10

NoHistory(s) == \A r \in DOMAIN courses_taken : courses_taken[r].alumno # s

InCatalog(c) == \E i \in DOMAIN courses : courses[i].course_code = c

\* the prerequisite codes the catalog declares for the course
DeclaredPrereqs(c) ==
    UNION {Range(courses[i].prereq_codes) : i \in {j \in DOMAIN courses : courses[j].course_code = c}}

\* the tracks the catalog declares for the course
DeclaredTracks(c) ==
    UNION {Range(courses[i].lineas_carrera) : i \in {j \in DOMAIN courses : courses[j].course_code = c}}

PrereqsOk(s, c) == \A p \in DeclaredPrereqs(c) : PassedRaw(s, p)

\* the obligatory courses the student has taken without ever passing
FailedObligatory(s) == {c \in OBLIGATORY_COURSES : HasRecord(s, c) /\ ~PassedRaw(s, c)}

\* the courses passed by the student that share a track with the course
SharingPassed(s, c) ==
    {p \in Codes : PassedRaw(s, p) /\ DeclaredTracks(p) \cap DeclaredTracks(c) # {}}

\* the best grade of the student in the course is exactly 10
BestIsTen(s, c) ==
    \A r \in DOMAIN courses_taken :
        courses_taken[r].alumno = s /\ courses_taken[r].course_code = c
            => courses_taken[r].grade <= 10

\* the last call was recomendar_cursos and it returned a list
RecOk == ret.op = "recomendar_cursos" /\ ret.status = "ok"

ReturnedCodes == {ret.value[k].course_code : k \in DOMAIN ret.value}

\* C1: the list returned by recomendar_cursos is ordered by priority
\* ascending and, within one priority, by score descending.
C1_SortedByPriorityThenScore ==
    RecOk =>
        \A i, j \in DOMAIN ret.value :
            i < j =>
                \/ ret.value[i].priority < ret.value[j].priority
                \/ /\ ret.value[i].priority = ret.value[j].priority
                   /\ ret.value[i].score >= ret.value[j].score

\* a returned list where a lower-priority entry has the higher score and
\* two entries of one priority have different scores
C1_Witness ==
    /\ RecOk
    /\ \E i, j \in DOMAIN ret.value :
           /\ i < j
           /\ ret.value[i].priority < ret.value[j].priority
           /\ ret.value[i].score < ret.value[j].score
    /\ \E i, j \in DOMAIN ret.value :
           /\ i < j
           /\ ret.value[i].priority = ret.value[j].priority
           /\ ret.value[i].score > ret.value[j].score

\* C2: every returned course has all its declared prerequisites among the
\* courses the student passed with grade >= 10.0, and its explanation says
\* prerequisites_met.
C2_PrereqsOfReturnedMet ==
    RecOk =>
        \A k \in DOMAIN ret.value :
            /\ ret.value[k].reasons.prerequisites_met
            /\ PrereqsOk(ret.student_id, ret.value[k].course_code)

\* a returned course that declares prerequisites, next to an unpassed
\* catalog course that was dropped although the list was not full
C2_Witness ==
    /\ RecOk
    /\ \E k \in DOMAIN ret.value : DeclaredPrereqs(ret.value[k].course_code) # {}
    /\ Len(ret.value) < ret.top_k
    /\ \E c \in Codes :
           /\ InCatalog(c)
           /\ ~PassedRaw(ret.student_id, c)
           /\ ~PrereqsOk(ret.student_id, c)
           /\ c \notin ReturnedCodes

\* C3: cumple_prereqs is true exactly when the course declares no
\* prerequisite or the student passed (grade >= 10.0) every declared one.
C3_CumplePrereqsExact ==
    ret.op = "cumple_prereqs" =>
        ret.value = (\/ DeclaredPrereqs(ret.course_code) = {}
                     \/ PrereqsOk(ret.student_id, ret.course_code))

\* a call on a course with two prerequisites of which only one is passed
C3_Witness ==
    /\ ret.op = "cumple_prereqs"
    /\ ~ret.value
    /\ \E p, q \in DeclaredPrereqs(ret.course_code) :
           PassedRaw(ret.student_id, p) /\ ~PassedRaw(ret.student_id, q)

\* C4: the three candidate tiers are pairwise disjoint and hold no passed
\* course, and the returned list holds no passed course and no course twice.
C4_TiersDisjointNoPassed ==
    /\ \A s \in Students : \A t \in {Tiers(s)} :
           /\ t.failed_courses \cap t.not_taken_obligatory = {}
           /\ t.failed_courses \cap t.other_courses = {}
           /\ t.not_taken_obligatory \cap t.other_courses = {}
           /\ \A c \in t.failed_courses \cup t.not_taken_obligatory \cup t.other_courses :
                  ~PassedRaw(s, c)
    /\ RecOk =>
           /\ \A k \in DOMAIN ret.value : ~PassedRaw(ret.student_id, ret.value[k].course_code)
           /\ \A i, j \in DOMAIN ret.value :
                  ret.value[i].course_code = ret.value[j].course_code => i = j

\* a list of two or more courses returned to a student who has passed one
\* catalog course and failed an obligatory one
C4_Witness ==
    /\ RecOk
    /\ Len(ret.value) >= 2
    /\ \E c \in Codes : InCatalog(c) /\ PassedRaw(ret.student_id, c)
    /\ FailedObligatory(ret.student_id) \cap ReturnedCodes # {}

\* C5: an obligatory course taken and never passed, whose prerequisites are
\* met, is a candidate: it is returned whenever the list is not full, it
\* comes before every priority-2 and priority-3 entry, and its entry has
\* priority 1, is_failed and the 2.0 boost in its score.
C5_FailedObligatoryFirst ==
    RecOk =>
        \A c \in FailedObligatory(ret.student_id) :
            PrereqsOk(ret.student_id, c) =>
                /\ Len(ret.value) < ret.top_k => c \in ReturnedCodes
                /\ \A j \in DOMAIN ret.value :
                       ret.value[j].priority \in {2, 3} =>
                           \E i \in 1..(j - 1) : ret.value[i].course_code = c
                /\ \A k \in DOMAIN ret.value :
                       ret.value[k].course_code = c =>
                           /\ ret.value[k].priority = 1
                           /\ ret.value[k].is_failed
                           /\ ret.value[k].score =
                                  ret.hybrid_scores[c]
                                  + calcular_peso_lineas(ret.student_id, c) \div 2
                                  + 2 * ScoreUnit

\* a failed obligatory course returned ahead of a priority-3 course whose
\* score is higher
C5_Witness ==
    /\ RecOk
    /\ \E i, j \in DOMAIN ret.value :
           /\ i < j
           /\ ret.value[i].course_code \in FailedObligatory(ret.student_id)
           /\ ret.value[j].priority = 3
           /\ ret.value[j].score > ret.value[i].score

\* C6: the score of a returned entry is the fusion score plus half the
\* track weight plus the boost of its priority (2.0, 1.0, 0), and the
\* priority is 1 for a failed obligatory course, 2 for an obligatory course
\* never taken, 3 otherwise.
C6_ScoreFormula ==
    RecOk =>
        \A k \in DOMAIN ret.value :
            LET c == ret.value[k].course_code
                priority == IF c \in FailedObligatory(ret.student_id) THEN 1
                            ELSE IF c \in OBLIGATORY_COURSES /\ ~HasRecord(ret.student_id, c) THEN 2
                            ELSE 3
                boost == IF priority = 1 THEN 2 * ScoreUnit
                         ELSE IF priority = 2 THEN ScoreUnit ELSE 0
            IN /\ ret.value[k].priority = priority
               /\ ret.value[k].score =
                      ret.hybrid_scores[c] + calcular_peso_lineas(ret.student_id, c) \div 2 + boost

\* a priority-2 entry with a positive track weight and a positive fusion
\* score, returned together with a priority-3 entry
C6_Witness ==
    /\ RecOk
    /\ \E k, j \in DOMAIN ret.value :
           /\ ret.value[k].priority = 2
           /\ ret.value[k].reasons.lineas_performance > 0
           /\ ret.hybrid_scores[ret.value[k].course_code] > 0
           /\ ret.value[j].priority = 3

\* C7: calcular_peso_lineas returns a value in [0, 1].
C7_WeightInUnitInterval ==
    ret.op = "calcular_peso_lineas" => ret.value >= 0 /\ ret.value <= ScoreUnit

\* a call where a passed course sharing a track has a grade above 20
C7_Witness ==
    /\ ret.op = "calcular_peso_lineas"
    /\ ret.value = ScoreUnit
    /\ \E p \in SharingPassed(ret.student_id, ret.course_code) :
           \E r \in DOMAIN courses_taken :
               /\ courses_taken[r].alumno = ret.student_id
               /\ courses_taken[r].course_code = p
               /\ courses_taken[r].grade > 20

\* C8 as stated: calcular_peso_lineas is 0 exactly when no passed course
\* shares a track with the target course.
C8_ZeroIffNoSharedTrack ==
    ret.op = "calcular_peso_lineas" =>
        (ret.value = 0 <=> SharingPassed(ret.student_id, ret.course_code) = {})

\* C8 amended: calcular_peso_lineas is 0 exactly when no passed course
\* shares a track with the target course or every passed course that does
\* has a best grade of exactly 10.
C8_ZeroIffNoSharedTrackOrAllTen ==
    ret.op = "calcular_peso_lineas" =>
        (ret.value = 0 <=>
            \A p \in SharingPassed(ret.student_id, ret.course_code) : BestIsTen(ret.student_id, p))

\* a call that returns 0 although a passed course shares a track
C8_Witness ==
    /\ ret.op = "calcular_peso_lineas"
    /\ ret.value = 0
    /\ SharingPassed(ret.student_id, ret.course_code) # {}

\* C9: for a student without history records the collaborative score of
\* every course is 0, and recomendar_cursos returns no priority-1 entry and
\* every priority-2 entry before every priority-3 entry.
C9_NoHistoryStudent ==
    /\ ret.op = "predict_score" /\ NoHistory(ret.student_id) => ret.value = 0
    /\ RecOk /\ NoHistory(ret.student_id) =>
           /\ \A k \in DOMAIN ret.value :
                  /\ ret.value[k].priority # 1
                  /\ ret.value[k].reasons.collaborative_score = 0
           /\ \A i, j \in DOMAIN ret.value :
                  ret.value[i].priority = 3 /\ ret.value[j].priority = 2 => j < i

\* a student without records, in a system trained on another student's
\* records, gets an obligatory course ahead of a higher-scored elective
C9_Witness ==
    /\ RecOk
    /\ NoHistory(ret.student_id)
    /\ DOMAIN student_to_idx # {}
    /\ \E i, j \in DOMAIN ret.value :
           /\ i < j
           /\ ret.value[i].priority = 2
           /\ ret.value[j].priority = 3
           /\ ret.value[j].score > ret.value[i].score
           /\ ret.value[i].course_code \in DOMAIN course_to_idx

\* C10: CF recommend never returns a course with a non-zero entry in the
\* student's row of the interaction matrix.
C10_NeverReturnsTaken ==
    ret.op = "recommend" =>
        \A k \in DOMAIN ret.value :
            interaction_matrix[student_to_idx[ret.student_id]][course_to_idx[ret.value[k][1]]] = 0

\* the grades of the records of student s in course c
GradesOf(s, c) ==
    {courses_taken[r].grade :
        r \in {q \in DOMAIN courses_taken :
                  courses_taken[q].alumno = s /\ courses_taken[q].course_code = c}}

\* the number of records of student s in course c
RecordCount(s, c) ==
    Cardinality({r \in DOMAIN courses_taken :
                    courses_taken[r].alumno = s /\ courses_taken[r].course_code = c})

\* C11: every entry of the interaction matrix is 0 or 1, and the entry of a
\* student and a catalog course is 1 exactly when some record of the pair
\* has a grade at or above the training threshold.
C11_InteractionMatrixBinary ==
    \A s \in DOMAIN student_to_idx, c \in DOMAIN course_to_idx :
        LET entry == interaction_matrix[student_to_idx[s]][course_to_idx[c]]
        IN /\ entry \in {0, 1}
           /\ entry = 1 <=> \E g \in GradesOf(s, c) : g >= TrainThreshold

\* C12: get_student_history lists a course in passed_courses exactly when
\* the highest grade of its records reaches the threshold, lists it there at
\* most once, maps it in grades to that highest grade, and lists it in
\* all_courses once per record.
C12_BestGradeIsMaximum ==
    ret.op = "get_student_history" =>
        LET s == ret.student_id
            h == ret.value
        IN /\ \A c \in Codes :
                  c \in Range(h.passed_courses) <=>
                      \E g \in GradesOf(s, c) : g >= ret.pass_threshold
           /\ \A i, j \in DOMAIN h.passed_courses :
                  h.passed_courses[i] = h.passed_courses[j] => i = j
           /\ DOMAIN h.grades = {c \in Codes : HasRecord(s, c)}
           /\ \A c \in DOMAIN h.grades :
                  /\ h.grades[c] \in GradesOf(s, c)
                  /\ \A g \in GradesOf(s, c) : g <= h.grades[c]
           /\ \A c \in Codes :
                  Cardinality({i \in DOMAIN h.all_courses : h.all_courses[i] = c})
                      = RecordCount(s, c)

\* a history where a course was passed first and failed afterwards
C12_Witness ==
    /\ ret.op = "get_student_history"
    /\ \E i, j \in DOMAIN courses_taken :
           /\ i < j
           /\ courses_taken[i].alumno = ret.student_id
           /\ courses_taken[j].alumno = ret.student_id
           /\ courses_taken[i].course_code = courses_taken[j].course_code
           /\ courses_taken[i].grade >= ret.pass_threshold
           /\ courses_taken[j].grade < ret.pass_threshold
           /\ courses_taken[i].course_code \in Range(ret.value.passed_courses)
           /\ Cardinality({k \in DOMAIN ret.value.all_courses :
                              ret.value.all_courses[k] = courses_taken[i].course_code}) = 2

\* the graph has an edge of the given type between the two nodes
HasEdge(type, u, v) ==
    \E k \in DOMAIN graph.edges :
        graph.edges[k].type = type /\ graph.edges[k].u = u /\ graph.edges[k].v = v

\* the prerequisite codes declared by some catalog row that are not catalog
\* courses
DanglingPrereqs == {p \in Codes : (\E c \in Codes : p \in DeclaredPrereqs(c)) /\ ~InCatalog(p)}

\* C13: for a declared prerequisite that is not a catalog course the graph
\* has no HAS_PREREQ edge and no node, every declared prerequisite that is a
\* catalog course has its HAS_PREREQ edge, and the validation report lists
\* the missing codes as invalid prerequisites.
C13_DanglingPrereqSkipped ==
    /\ \A c \in Codes : \A p \in DeclaredPrereqs(c) :
           IF InCatalog(p)
           THEN HasEdge("HAS_PREREQ", <<"Course", c>>, <<"Course", p>>)
           ELSE /\ ~HasEdge("HAS_PREREQ", <<"Course", c>>, <<"Course", p>>)
                /\ <<"Course", p>> \notin graph.nodes
    /\ ret.op = "validate_data_consistency" =>
           /\ ret.value.invalid_prereqs = DanglingPrereqs
           /\ DanglingPrereqs # {} => ~ret.value.valid

\* some history record names the course
NamedInHistory(c) == \E s \in Students : HasRecord(s, c)

IsZeroVector(v, n) == v = [k \in 1..n |-> 0]

\* C14: for a student without history records and for a course outside the
\* catalog (for the knowledge graph: also named by no history record) the
\* embedding lookups return a zero vector, the scores and the similarity are
\* 0, the profile is zero and CF recommend returns the empty list.
C14_UnknownEntityDegrades ==
    /\ ret.op = "kg.get_student_embedding" /\ NoHistory(ret.student_id) =>
           IsZeroVector(ret.value, Dimensions)
    /\ ret.op = "kg.get_course_embedding" /\ ~InCatalog(ret.course_code)
           /\ ~NamedInHistory(ret.course_code) =>
               IsZeroVector(ret.value, Dimensions)
    /\ ret.op = "cf.get_student_embedding" /\ NoHistory(ret.student_id) =>
           IsZeroVector(ret.value, Factors)
    /\ ret.op = "cf.get_course_embedding" /\ ~InCatalog(ret.course_code) =>
           IsZeroVector(ret.value, Factors)
    /\ ret.op = "predict_score"
           /\ (NoHistory(ret.student_id) \/ ~InCatalog(ret.course_code)) =>
               ret.value = 0
    /\ ret.op = "recommend" /\ NoHistory(ret.student_id) => ret.value = <<>>
    /\ ret.op = "get_student_profile" /\ NoHistory(ret.student_id) =>
           \A k \in DOMAIN ret.value : ret.value[k] = 0
    /\ ret.op = "compute_similarity"
           /\ (NoHistory(ret.student_id) \/ ~InCatalog(ret.course_code)) =>
               ret.value = <<0, 1>>

\* a lookup of a student without records in a system trained on another
\* student's records, whose graph and catalog are not empty
C14_Witness ==
    /\ ret.op = "kg.get_student_embedding"
    /\ NoHistory(ret.student_id)
    /\ \E s \in Students : <<"Student", s>> \in DOMAIN embeddings
    /\ \E c \in Codes : InCatalog(c)

\* C15: after a successful load_model every CF lookup answers what it
\* answered when the file was written, and after a successful load_graph so
\* does every KG lookup.
C15_SaveLoadRoundTrip ==
    /\ ret.op = "cf.load_model" /\ ret.status = "ok" => CFAnswers = snap.cf[1]
    /\ ret.op = "kg.load_graph" /\ ret.status = "ok" => KGAnswers = snap.kg[1]

\* a trained model loaded into a newly constructed object, with a score
\* that is not zero
C15_Witness ==
    /\ ret.op = "cf.load_model"
    /\ ret.status = "ok"
    /\ ret.fresh
    /\ user_factors # None
    /\ \E q \in Students \X Codes : CFAnswers.score[q].value # 0

\* C16: when the loader has put the network in evaluation mode, every mode
\* flag stays cleared at every step of every interleaving of predict_score
\* calls, every forward pass sees evaluation mode and ends without an
\* exception, and the trained artifacts (index tables, graph, embeddings,
\* factors, interaction matrix, BatchNorm counters) keep their trained
\* values.
C16_EvalModeStable ==
    net.loader = "api" =>
        /\ net.training = AllEval
        /\ net.num_batches_tracked = 0
        /\ \A t \in Threads :
               calls[t].pc # "idle" =>
                   /\ calls[t].bn_mode \in {"none", "eval"}
                   /\ calls[t].dropout_mode \in {"none", "eval"}
                   /\ calls[t].status # "raised"
                   /\ ~calls[t].was_training
        /\ Trained
        /\ embeddings = train_node2vec(graph, Dimensions)
        /\ user_factors = [u \in DOMAIN interaction_matrix |-> [k \in 1..Factors |-> 2]]
        /\ item_factors = [i \in 0..(Len(courses) - 1) |-> [k \in 1..Factors |-> i + 1]]

\* two calls in progress at once on a network loaded by the API, one of
\* them between its eval() and its forward pass, the other past its forward
\* pass
C16_Witness ==
    /\ net.loader = "api"
    /\ \E t, u \in Threads :
           /\ t # u
           /\ calls[t].pc = "eval"
           /\ calls[t].k > 1
           /\ calls[u].pc = "done"
           /\ calls[u].bn_mode = "eval"

\* the candidates of the student whose declared prerequisites are all passed
SurvivingCandidates(s) ==
    {c \in Codes :
        /\ \/ c \in FailedObligatory(s)
           \/ c \in OBLIGATORY_COURSES /\ ~HasRecord(s, c)
           \/ InCatalog(c) /\ ~PassedRaw(s, c) /\ c \notin OBLIGATORY_COURSES
        /\ PrereqsOk(s, c)}

\* C17: for every integer top_k a caller can pass, the list returned by
\* recomendar_cursos has exactly min(top_k, number of surviving candidates)
\* entries (no entry when that minimum is negative).
C17_ExactlyMinTopK ==
    RecOk =>
        Len(ret.value) =
            Max2(0, Min2(ret.top_k, Cardinality(SurvivingCandidates(ret.student_id))))

\* for the top_k values from 0 up the count is the claimed one
C17_MinTopKWhenNonNegative ==
    RecOk /\ ret.top_k >= 0 =>
        Len(ret.value) = Min2(ret.top_k, Cardinality(SurvivingCandidates(ret.student_id)))

\* the last request arrived while models_loaded was false
GatedRequest == ret.op = "request" /\ ~ret.models_loaded

\* models_loaded is true only after all artifacts are loaded and the
\* fusion network is in evaluation mode, and false after a failed load;
\* health is always answered
LoadFlagSound ==
    /\ api.models_loaded => api.loaded = Len(LoadSteps) /\ net.training = AllEval
    /\ api.step = "failed" => ~api.models_loaded
    /\ ret.op = "request" /\ ret.endpoint = "health" => ret.status = 200

\* C18 as stated: while models_loaded is false every request to an
\* endpoint other than health is answered with 503 and reaches neither the
\* data loader nor the recommender, health is always answered, and
\* models_loaded is true only after every artifact is loaded and false
\* after a failed load.
C18_GateAllButHealth ==
    /\ LoadFlagSound
    /\ GatedRequest /\ ret.endpoint # "health" => ret.status = 503 /\ ~ret.backend

\* C18, amended: while models_loaded is false every request to an endpoint
\* other than health and static is answered with 503, and no request
\* reaches the data loader or the recommender; health is always answered;
\* models_loaded is true only after every artifact is loaded and false
\* after a failed load.
C18_GateAllButHealthAndStatic ==
    /\ LoadFlagSound
    /\ GatedRequest => ~ret.backend
    /\ GatedRequest /\ ret.endpoint \notin {"health", "static"} => ret.status = 503

\* a recommendation request answered with 503 after a load that failed
\* with some artifacts already loaded
C18_Witness ==
    /\ GatedRequest
    /\ ret.endpoint = "get_recommendations"
    /\ ret.status = 503
    /\ api.step = "failed"
    /\ api.loaded >= 1

\* the student has a record for the course with grade >= th
PassedAt(s, c, th) ==
    \E r \in DOMAIN courses_taken :
        /\ courses_taken[r].alumno = s
        /\ courses_taken[r].course_code = c
        /\ courses_taken[r].grade >= th

\* the positions of the returned training list that hold the tuple
PairPositions(s, c, label) == {k \in DOMAIN ret.value : ret.value[k] = <<s, c, label>>}

\* C19: for each student the list returned by prepare_training_data holds
\* one label-1 tuple for every passed course and for no other course, and
\* exactly min(#passed, #not-passed) label-0 tuples, over distinct catalog
\* courses the student has not passed; no (student, course) pair gets both
\* labels; a student with no passed course contributes no tuple.
C19_TrainingPairs ==
    ret.op = "prepare_training_data" =>
        \A s \in Students :
            \E passed \in {{c \in Codes : PassedAt(s, c, ret.pass_threshold)}} :
            \E not_passed \in {{c \in Codes : InCatalog(c) /\ c \notin passed}} :
                /\ \A c \in Codes :
                       /\ Cardinality(PairPositions(s, c, 1)) = IF c \in passed THEN 1 ELSE 0
                       /\ Cardinality(PairPositions(s, c, 0)) <= 1
                       /\ PairPositions(s, c, 0) # {} => c \in not_passed
                       /\ PairPositions(s, c, 0) = {} \/ PairPositions(s, c, 1) = {}
                /\ Cardinality({k \in DOMAIN ret.value :
                                   ret.value[k][1] = s /\ ret.value[k][3] = 0})
                       = Min2(Cardinality(passed), Cardinality(not_passed))
                /\ passed = {} => \A k \in DOMAIN ret.value : ret.value[k][1] # s

\* a list for two students: one has passed two courses, one of them outside
\* the catalog, and gets fewer negatives than positives; the other has
\* records but passed nothing
C19_Witness ==
    /\ ret.op = "prepare_training_data"
    /\ \E s, u \in Students :
           /\ s # u
           /\ Cardinality({c \in Codes : PassedAt(s, c, ret.pass_threshold)}) = 2
           /\ \E c \in Codes : PassedAt(s, c, ret.pass_threshold) /\ ~InCatalog(c)
           /\ Cardinality({k \in DOMAIN ret.value :
                              ret.value[k][1] = s /\ ret.value[k][3] = 0}) = 1
           /\ ~NoHistory(u)
           /\ \A c \in Codes : ~PassedAt(u, c, ret.pass_threshold)

\* the positions of the TOOK edges in the edge list of the graph
TookPositions == {k \in DOMAIN graph.edges : graph.edges[k].type = "TOOK"}

\* the TOOK edges from the student to the course that carry the grade
TookEdgesOf(s, c, grade) ==
    {k \in TookPositions :
        /\ graph.edges[k].u = <<"Student", s>>
        /\ graph.edges[k].v = <<"Course", c>>
        /\ graph.edges[k].grade = grade}

\* the records of the student in the course with the grade
RecordsOf(s, c, grade) ==
    {r \in DOMAIN courses_taken :
        /\ courses_taken[r].alumno = s
        /\ courses_taken[r].course_code = c
        /\ courses_taken[r].grade = grade}

\* C20: the graph holds exactly one TOOK edge per history record, from the
\* record's student to its course, with the record's grade and
\* passed = (grade >= the training threshold); n records of one pair give
\* n parallel TOOK edges.
C20_OneTookEdgePerRecord ==
    /\ Cardinality(TookPositions) = Len(courses_taken)
    /\ \A k \in TookPositions :
           graph.edges[k].passed = (graph.edges[k].grade >= TrainThreshold)
    /\ \A r \in DOMAIN courses_taken :
           \E rec \in {courses_taken[r]} :
               Cardinality(TookEdgesOf(rec.alumno, rec.course_code, rec.grade))
                   = Cardinality(RecordsOf(rec.alumno, rec.course_code, rec.grade))

\* a student with a failed and a passed attempt at one course, hence two
\* parallel TOOK edges with different passed flags, next to a record of
\* another student
C20_Witness ==
    \E s, u \in Students, c \in Codes :
        /\ s # u
        /\ RecordsOf(s, c, 10) # {}
        /\ RecordsOf(s, c, 15) # {}
        /\ ~NoHistory(u)
        /\ \E j, k \in TookPositions :
               /\ graph.edges[j].u = <<"Student", s>> /\ graph.edges[j].v = <<"Course", c>>
               /\ graph.edges[k].u = <<"Student", s>> /\ graph.edges[k].v = <<"Course", c>>
               /\ graph.edges[j].passed
               /\ ~graph.edges[k].passed

\* the graph has an edge from u to v
Joined(u, v) == \E k \in DOMAIN graph.edges : graph.edges[k].u = u /\ graph.edges[k].v = v

\* the nodes joined to n by an edge in either direction
UndirectedNeighbors(n) == {m \in graph.nodes : Joined(n, m) \/ Joined(m, n)}

\* C21: in a random walk the next node is chosen among all nodes joined to
\* the current node by an edge in either direction, and a walk ends before
\* walk_length nodes only at a node that has no such neighbour.
C21_WalkUsesBothDirections ==
    /\ walker.pc = "walk" /\ walker.steps < WalkSteps(WalkLength) =>
           Range(walker.neighbors[walker.current]) = UndirectedNeighbors(walker.current)
    /\ walker.pc = "update" /\ Len(walker.walk) < WalkLength =>
           UndirectedNeighbors(walker.current) = {}

\* what the walks do: the next node is chosen among the successors of the
\* current node, and a walk ends early exactly at a node with no outgoing
\* edge
C21_WalkUsesSuccessorsOnly ==
    /\ walker.pc = "walk" /\ walker.steps < WalkSteps(WalkLength) =>
           Range(walker.neighbors[walker.current]) =
               {m \in graph.nodes : Joined(walker.current, m)}
    /\ walker.pc = "update" /\ Len(walker.walk) < WalkLength =>
           \A m \in graph.nodes : ~Joined(walker.current, m)

\* the shape of the walks and their number
WalksWellFormed ==
    /\ walker.pc \in {"walk", "update"} =>
           /\ walker.walk[1] = walker.start
           /\ walker.start = walker.nodes[walker.pos]
           /\ Len(walker.walk) <= WalkLength
           /\ \A i \in 1..(Len(walker.walk) - 1) : Joined(walker.walk[i], walker.walk[i + 1])
    /\ walker.pc \in {"loop", "walk", "update"} =>
           /\ Range(walker.nodes) = graph.nodes
           /\ Len(walker.nodes) = Cardinality(graph.nodes)
           /\ walker.walks_done = walker.walk_id * Len(walker.nodes) + walker.pos - 1
    /\ walker.pc = "done" =>
           walker.walks_done = NumWalks * Cardinality(graph.nodes)

\* C26: train_node2vec terminates on every graph, cycles and isolated nodes
\* included, after exactly num_walks * |nodes| walks, one per node per
\* round; every walk starts at its start node, has at most walk_length
\* nodes, and every consecutive pair of its nodes is joined by an edge.
C26_Node2VecTerminates == []WalksWellFormed /\ <>(walker.pc = "done")

\* training has returned on a graph with a cycle of two courses and an
\* isolated course, every vector rewritten
C26_Witness ==
    /\ walker.pc = "done"
    /\ \E n, m \in graph.nodes : n # m /\ Joined(n, m) /\ Joined(m, n)
    /\ \E n \in graph.nodes : UndirectedNeighbors(n) = {}
    /\ embeddings = train_node2vec(graph, Dimensions)

\* the catalog courses other than c that share a track with c
TrackMates(c) == {d \in Codes \ {c} : InCatalog(d) /\ DeclaredTracks(d) \cap DeclaredTracks(c) # {}}

\* the catalog courses that c declares as prerequisites
CatalogPrereqs(c) == {p \in DeclaredPrereqs(c) : InCatalog(p)}

\* list is what get_course_neighbors(c, k) may return: at most k pairs, the
\* track mates of c first, its catalog prerequisites after all of them
NeighborListOk(c, k, list) ==
    /\ Len(list) <= k
    /\ \A i \in DOMAIN list :
           \/ list[i][2] = "linea" /\ list[i][1] \in TrackMates(c)
           \/ list[i][2] = "prereq" /\ list[i][1] \in CatalogPrereqs(c)
    /\ \A i, j \in DOMAIN list : list[i][2] = "prereq" /\ list[j][2] = "linea" => j < i
    /\ (\E i \in DOMAIN list : list[i][2] = "prereq") =>
           \A d \in TrackMates(c) : \E j \in DOMAIN list : list[j] = <<d, "linea">>
    /\ Len(list) < k =>
           /\ \A d \in TrackMates(c) : \E j \in DOMAIN list : list[j] = <<d, "linea">>
           /\ \A p \in CatalogPrereqs(c) : \E j \in DOMAIN list : list[j] = <<p, "prereq">>

\* C22: get_course_neighbors(course, k) returns at most k pairs, first the
\* other courses that share a track with the course (never the course
\* itself), and only after all of them its direct prerequisites, tagged
\* "prereq"; the explanation of a recommended course holds the list for
\* k = 3.
C22_CourseNeighbors ==
    /\ ret.op = "get_course_neighbors" /\ ret.status = "ok" =>
           NeighborListOk(ret.course_code, ret.k, ret.value)
    /\ RecOk =>
           \A i \in DOMAIN ret.value :
               NeighborListOk(ret.value[i].course_code, 3, ret.value[i].reasons.kg_neighbors)

\* a call with k = 2 on a course with two track mates and a prerequisite:
\* the prerequisite is cut off
C22_Witness ==
    /\ ret.op = "get_course_neighbors"
    /\ ret.status = "ok"
    /\ ret.k = 2
    /\ Cardinality(TrackMates(ret.course_code)) = 2
    /\ CatalogPrereqs(ret.course_code) # {}
    /\ Len(ret.value) = 2

\* user u (an index) has a passing record for a catalog course
UserInteracts(u) ==
    \E r \in DOMAIN courses_taken :
        /\ courses_taken[r].grade >= TrainThreshold
        /\ InCatalog(courses_taken[r].course_code)
        /\ student_to_idx[courses_taken[r].alumno] = u

\* item i (an index) has a passing record
ItemInteracts(i) ==
    \E r \in DOMAIN courses_taken :
        /\ courses_taken[r].grade >= TrainThreshold
        /\ InCatalog(courses_taken[r].course_code)
        /\ course_to_idx[courses_taken[r].course_code] = i

\* C23: ALS training returns after exactly 15 iterations; in an iteration
\* every user row is updated before any item row, so the item updates read
\* user rows written in that iteration; a row without interaction keeps
\* its initial value.
C23_ALSSchedule ==
    als.pc # "idle" =>
        /\ (als.pc = "done") = (als.iteration = Iterations)
        /\ \A u \in DOMAIN user_factors :
               IF UserInteracts(u)
               THEN als.user_written[u] =
                        IF als.pc = "users" /\ u >= als.u THEN als.iteration - 1
                        ELSE IF als.pc = "done" THEN als.iteration - 1 ELSE als.iteration
               ELSE als.user_written[u] = -1 /\ user_factors[u] = als.init_user[u]
        /\ \A i \in DOMAIN item_factors :
               IF ItemInteracts(i)
               THEN als.item_written[i] =
                        IF als.pc = "users" \/ (als.pc = "items" /\ i >= als.i)
                        THEN als.iteration - 1 ELSE IF als.pc = "done" THEN als.iteration - 1
                        ELSE als.iteration
               ELSE als.item_written[i] = -1 /\ item_factors[i] = als.init_item[i]
        /\ als.pc = "items" /\ als.i > 0 /\ ItemInteracts(als.i - 1) =>
               /\ als.read # <<>>
               /\ \A j \in DOMAIN als.read : als.read[j] = als.iteration

\* training has returned on data where one student and one catalog course
\* have no interaction and another student and course have one
C23_Witness ==
    /\ als.pc = "done"
    /\ \E u, v \in DOMAIN user_factors : UserInteracts(u) /\ ~UserInteracts(v)
    /\ \E i, j \in DOMAIN item_factors : ItemInteracts(i) /\ ~ItemInteracts(j)
    /\ \E u \in DOMAIN user_factors : als.user_written[u] = Iterations - 1

\* the mode in which the loader left the network
LoadedMode == IF net.loader = "api" THEN AllEval ELSE AllTraining

\* C24: a predict_score call that runs alone does its forward pass with the
\* network in evaluation mode and returns without an exception, and when
\* it returns every mode flag is what it was when the call began (between
\* calls the network is in the mode its loader left it in).
C24_SingleCallRestoresMode ==
    /\ calls[1].pc \in {"idle", "read", "done"} => net.training = LoadedMode
    /\ calls[1].pc # "idle" =>
           /\ calls[1].bn_mode \in {"none", "eval"}
           /\ calls[1].dropout_mode \in {"none", "eval"}
           /\ calls[1].status # "raised"
           /\ calls[1].pc \in {"forward_bn", "forward_dropout"} => net.training = AllEval
    /\ net.num_batches_tracked = 0

\* a call on a network in training mode has returned its score after
\* switching to evaluation mode and back
C24_Witness ==
    /\ net.loader = "cli"
    /\ calls[1].pc = "done"
    /\ calls[1].was_training
    /\ calls[1].status = "ok"
    /\ calls[1].bn_mode = "eval"
    /\ calls[1].dropout_mode = "eval"
    /\ net.training = AllTraining

\* C28: on a network left in training mode, under every interleaving of
\* two predict_score calls every forward pass runs in evaluation mode, and
\* the network is in training mode once both calls have returned.
C28_TrainingModeSurvivesRace ==
    net.loader = "cli" =>
        /\ \A t \in Threads :
               calls[t].pc # "idle" =>
                   /\ calls[t].bn_mode \in {"none", "eval"}
                   /\ calls[t].dropout_mode \in {"none", "eval"}
        /\ (\A t \in Threads : calls[t].pc = "idle") => net.training = AllTraining


(***************************************************************************)
(* C25: inference is read-only on the trained artifacts.                   *)
(***************************************************************************)
\* the trained artifacts of the knowledge graph and of the collaborative filter
artifacts == <<graph, embeddings, user_factors, item_factors, interaction_matrix>>

\* C25: every step of a sequence of recomendar_cursos, explain_recommendation,
\* recommend, predict_score and get_*_embedding calls on loaded models leaves
\* the graph, the embedding table, user_factors, item_factors and the
\* interaction matrix as they were.
C25_InferenceReadOnly == [][artifacts' = artifacts]_vars

\* a recommend call that masked a taken course and still returned a course
C25_Witness ==
    /\ ret.op = "recommend"
    /\ ret.student_id \in DOMAIN student_to_idx
    /\ \E i \in DOMAIN item_factors :
           interaction_matrix[student_to_idx[ret.student_id]][i] # 0
    /\ ret.value # <<>>

(***************************************************************************)
(* C27: every returned course is a catalog course.                         *)
(***************************************************************************)
\* C27: recomendar_cursos never raises and every course it returns is a
\* course of the loaded catalog, also when the obligatory set or the history
\* names codes outside the catalog.
C27_ReturnedCoursesInCatalog ==
    ret.op = "recomendar_cursos" =>
        /\ ret.status = "ok"
        /\ \A k \in DOMAIN ret.value : InCatalog(ret.value[k].course_code)

(***************************************************************************)
(* C29: the node set of the built graph.                                   *)
(***************************************************************************)
\* one node per catalog course, per distinct track label of the catalog and
\* per student of the history
ContractNodes ==
    {<<"Course", c>> : c \in {c \in Codes : InCatalog(c)}}
        \cup {<<"Linea", l>> : l \in UNION {DeclaredTracks(c) : c \in Codes}}
        \cup {<<"Student", s>> : s \in {s \in Students : ~NoHistory(s)}}

\* C29: after build_graph the node set is exactly one Course node per catalog
\* course, one Track node per distinct track label and one Student node per
\* student of the history, each with its type attribute; every Course node
\* is a catalog course, also when a record names a code outside the catalog.
C29_NodeSetIsContract ==
    /\ graph.nodes = ContractNodes
    /\ graph.typed = graph.nodes

(***************************************************************************)
(* C30: get_prerequisite_chain terminates and returns simple chains.       *)
(***************************************************************************)
\* the sequence names no course twice
NoRepeat(seq) == \A a, b \in DOMAIN seq : a # b => seq[a] # seq[b]

\* the returned chains end with the requested code and repeat no course; the
\* nesting of calls never exceeds the number of course codes plus one
ChainsWellFormed ==
    /\ chain.pc = "running" => Len(chain.stack) <= Cardinality(Codes) + 1
    /\ chain.pc = "done" =>
           /\ chain.value # <<>>
           /\ \A j \in DOMAIN chain.value :
                  /\ chain.value[j] # <<>>
                  /\ chain.value[j][Len(chain.value[j])] = chain.course_code
                  /\ NoRepeat(chain.value[j])

\* C30: get_prerequisite_chain(course) terminates for every catalog, also
\* with cycles and self-references in the prerequisite relation, and every
\* chain it returns ends with the requested course and repeats no course.
C30_PrerequisiteChainTerminates == []ChainsWellFormed /\ <>(chain.pc = "done")

\* a lookup on a course of a prerequisite cycle returned a chain of two or
\* more courses
C30_Witness ==
    /\ chain.pc = "done"
    /\ \E i \in DOMAIN courses :
           /\ courses[i].course_code = chain.course_code
           /\ \E p \in Range(courses[i].prereq_codes) :
                  chain.course_code \in DeclaredPrereqs(p)
    /\ \E j \in DOMAIN chain.value : Len(chain.value[j]) >= 2

====
